---- MODULE Spec2Model ----
(***************************************************************************)
(* Model of the table synchronisation engine of tauri-sync-db-backend      *)
(* (src/tauri-sync-db-backend/src/sync.rs): sync_all, sync_table,          *)
(* push_changes, pull_changes and the remote statement executor, together  *)
(* with the local store, the remote store, the sync_status ledger, the     *)
(* wall clock and the writers that surround them.                          *)
(***************************************************************************)
EXTENDS Integers, Sequences, FiniteSets, TLC

\* ------------------------------------------------------------------ bounds

\* The wall clock runs from 0 to MaxTime.
MaxTime == 2

\* The caller of SpecTwice invokes sync_all MaxRounds times in a row.
MaxRounds == 2

\* pull_changes of SpecPull is given at most MaxRows fetched rows.
MaxRows == 2

\* ----------------------------------------------------------------- strings
\* A string is a sequence of character codes: 0..9 are the decimal digits,
\* Sep is the punctuation of the date-time format, letters are 11 and above.

Sep == 10

\* Option<String>: a nullable string-encoded cell.
None == [some |-> FALSE, v |-> <<>>]

Some(s) == [some |-> TRUE, v |-> s]

\* unwrap_or_default() of an Option<String>.
UnwrapOrDefault(c) == IF c.some THEN c.v ELSE <<>>

RECURSIVE ToDecimal(_)
\* i64::to_string(): decimal digits, no padding.
ToDecimal(n) == IF n < 10 THEN <<n>> ELSE Append(ToDecimal(n \div 10), n % 10)

\* format("%Y-%m-%d %H:%M:%S"): fixed width, zero padded, with punctuation.
FormatDateTime(n) == <<n \div 10, Sep, n % 10>>

IsDigits(s) == Len(s) > 0 /\ \A k \in 1..Len(s) : s[k] \in 0..9

RECURSIVE DigitsValue(_)
DigitsValue(s) ==
    IF s = <<>> THEN 0
    ELSE 10 * DigitsValue(SubSeq(s, 1, Len(s) - 1)) + s[Len(s)]

\* str::parse::<i64>(): Ok(value) for a digit string, Err otherwise.
ParseI64(s) == IF IsDigits(s) THEN [ok |-> TRUE, n |-> DigitsValue(s)]
               ELSE [ok |-> FALSE, n |-> 0]

\* NaiveDateTime::parse_from_str(s, "%Y-%m-%d %H:%M:%S").
ParseDateTime(s) ==
    IF Len(s) = 3 /\ s[1] \in 0..9 /\ s[2] = Sep /\ s[3] \in 0..9
    THEN [ok |-> TRUE, n |-> 10 * s[1] + s[3]]
    ELSE [ok |-> FALSE, n |-> 0]

RECURSIVE StrGt(_, _)
\* a > b on Rust Strings (and on SQLite TEXT): byte-wise lexicographic.
StrGt(a, b) ==
    IF a = <<>> THEN FALSE
    ELSE IF b = <<>> THEN TRUE
    ELSE IF a[1] # b[1] THEN a[1] > b[1]
    ELSE StrGt(Tail(a), Tail(b))

\* updated_at_type.to_uppercase().contains("INT")
IsIntType(ty) == ty \in {"INTEGER", "INT", "BIGINT", "integer"}

\* The offset of the machine's time zone from UTC, in units of the clock: a
\* zone east of Greenwich.
UtcOffset == 1

\* chrono::Local::now() as a date-time: the wall time of the local zone at
\* instant n.
LocalDateTime(n) == n + UtcOffset

\* The text form of instant n in a column of declared type ty: the epoch
\* count for an integer column, the formatted local date-time otherwise.
Encode(ty, n) == IF IsIntType(ty) THEN ToDecimal(n) ELSE FormatDateTime(LocalDateTime(n))

\* SQL "updated_at > x" by the column's affinity: numeric for an integer
\* column, text comparison otherwise; NULL compares as unknown (not true).
SqlGreater(ty, cell, x) ==
    /\ cell.some
    /\ IF IsIntType(ty)
       THEN /\ IsDigits(cell.v)
            /\ IsDigits(x)
            /\ DigitsValue(cell.v) > DigitsValue(x)
       ELSE StrGt(cell.v, x)

\* ------------------------------------------------------------------ schema
\* The SyncSchema the embedding application supplies: per table its ordered
\* columns, its ordered primary-key columns and the declared column types.

AllTables == {"notes", "tags", "links"}

\* A table the application also lists, which declares no updated_at column.
PlainTables == {"plain"}

get_columns(t) ==
    IF t = "links" THEN <<"src", "dst", "updated_at">>
    ELSE IF t \in PlainTables THEN <<"id", "text">>
    ELSE <<"id", "text", "updated_at">>

get_pks(t) == IF t = "links" THEN <<"src", "dst">> ELSE <<"id">>

\* Some(type) as the type string, None as "".
get_column_type(t, c) ==
    IF c = "updated_at"
    THEN (IF t = "notes" THEN "INTEGER" ELSE IF t \in PlainTables THEN "" ELSE "TEXT")
    ELSE IF c \in {"id", "src", "dst"} THEN "INTEGER"
    ELSE IF c = "text" THEN "TEXT"
    ELSE ""

\* schema.get_column_type(&table, "updated_at").unwrap_or("TEXT")
updated_at_type(t) ==
    IF get_column_type(t, "updated_at") = "" THEN "TEXT"
    ELSE get_column_type(t, "updated_at")

\* Position of column c in the column list cols (0 when absent).
ColIndex(cols, c) ==
    IF \E k \in 1..Len(cols) : cols[k] = c
    THEN CHOOSE k \in 1..Len(cols) : cols[k] = c
    ELSE 0

\* -------------------------------------------------------------------- rows
\* A row is a sequence of cells aligned with the table's column list.  A row
\* as received from the remote may be shorter than the column list.

\* row.get(i).and_then(|v| v.clone()): the cell at a column, None when the
\* cell is NULL or the row has no such position.
CellAt(cols, row, c) ==
    LET k == ColIndex(cols, c)
    IN  IF k = 0 \/ k > Len(row) THEN None ELSE row[k]

\* The values of the primary-key columns of a stored row.
PkOf(t, row) == [k \in 1..Len(get_pks(t)) |-> CellAt(get_columns(t), row, get_pks(t)[k])]

UpdatedAtOf(t, row) == CellAt(get_columns(t), row, "updated_at")

\* A total order on the rows of a table, used to turn a result set into the
\* sequence the SQL engine returns (the engine's row order is fixed by the
\* table's content).
RECURSIVE SetToSeq(_)
SetToSeq(S) ==
    IF S = {} THEN <<>>
    ELSE LET x == CHOOSE y \in S : TRUE
         IN  <<x>> \o SetToSeq(S \ {x})

\* ------------------------------------------------------------ SQL on a table
\* A table is a set of rows with the primary key unique.

\* The selection with ">=" in place of ">".
SelectNewer_Inclusive(t, tbl, watermark) ==
    SetToSeq({r \in tbl : UpdatedAtOf(t, r).some /\
                ~SqlGreater(updated_at_type(t), Some(watermark), UpdatedAtOf(t, r).v)})

\* SELECT cols FROM t WHERE updated_at > watermark
SelectNewer(t, tbl, watermark) ==
    SetToSeq({r \in tbl : SqlGreater(updated_at_type(t), UpdatedAtOf(t, r), watermark)})

\* INSERT OR REPLACE INTO t (cols) VALUES (row): the row replaces the stored
\* row of the same primary key.
InsertOrReplace(t, tbl, row) ==
    {r \in tbl : PkOf(t, r) # PkOf(t, row)} \cup {row}

\* The upsert without the WHERE clause on updated_at.
UpsertAlways(t, tbl, row) == {r \in tbl : PkOf(t, r) # PkOf(t, row)} \cup {row}

\* INSERT INTO t (cols) VALUES (row) ON CONFLICT(pks) DO UPDATE SET c =
\* excluded.c, ... WHERE excluded.updated_at > t.updated_at
UpsertIfNewer(t, tbl, row) ==
    IF \E r \in tbl : PkOf(t, r) = PkOf(t, row)
    THEN LET old == CHOOSE r \in tbl : PkOf(t, r) = PkOf(t, row)
         IN  IF /\ UpdatedAtOf(t, old).some
                /\ SqlGreater(updated_at_type(t), UpdatedAtOf(t, row), UpdatedAtOf(t, old).v)
             THEN (tbl \ {old}) \cup {row}
             ELSE tbl
    ELSE tbl \cup {row}

RECURSIVE ApplyBatch(_, _, _)
\* The statements of one batch applied in order.
ApplyBatch(t, tbl, rows) ==
    IF rows = <<>> THEN tbl
    ELSE ApplyBatch(t, UpsertIfNewer(t, tbl, Head(rows)), Tail(rows))

\* ------------------------------------------------------------ pull_changes
\* The per-row logic of pull_changes, inside its one local transaction.

\* The "pk = 'value'" conditions built for a fetched row: one per primary-key
\* column whose value is present and not the empty string.
PkConditions(t, row) ==
    LET pks == get_pks(t)
        val(k) == UnwrapOrDefault(CellAt(get_columns(t), row, pks[k]))
        keep == {k \in 1..Len(pks) : val(k) # <<>>}
    IN  [k \in keep |-> val(k)]

\* The check on the first primary-key column alone.
PkIncomplete_FirstOnly(t, row) ==
    1 \notin DOMAIN PkConditions(t, row)

\* pk_conditions.len() != pks.len(): the row is skipped.
PkIncomplete(t, row) ==
    Cardinality(DOMAIN PkConditions(t, row)) # Len(get_pks(t))

\* r.get::<_, String>(0) on a stored updated_at: Ok only for a value of
\* storage class TEXT.  A column of integer affinity stores a numeric value as
\* INTEGER, and NULL is no string either.
GetString(ty, cell) ==
    IF ~cell.some THEN [ok |-> FALSE, v |-> <<>>]
    ELSE IF IsIntType(ty) /\ IsDigits(cell.v) THEN [ok |-> FALSE, v |-> <<>>]
    ELSE [ok |-> TRUE, v |-> cell.v]

\* SELECT updated_at FROM t WHERE <pk conditions>, read as a String: Err when
\* no local row matches or the value read is not a string.
LocalUpdatedAt(t, tbl, row) ==
    LET pks == get_pks(t)
        conds == PkConditions(t, row)
        hit == {r \in tbl : \A k \in DOMAIN conds :
                    CellAt(get_columns(t), r, pks[k]) = Some(conds[k])}
    IN  IF hit = {} THEN [ok |-> FALSE, v |-> <<>>]
        ELSE GetString(updated_at_type(t), UpdatedAtOf(t, CHOOSE r \in hit : TRUE))

\* The comparison with ">=": the local row also wins a tie.
LocalWins_OrEqual(t, tbl, row) ==
    LET local_updated == LocalUpdatedAt(t, tbl, row)
        remote_updated_at == UnwrapOrDefault(UpdatedAtOf(t, row))
    IN  local_updated.ok /\ ~StrGt(remote_updated_at, local_updated.v)

\* local_updated > remote_updated_at, on Strings: the local row wins.
LocalWins(t, tbl, row) ==
    LET local_updated == LocalUpdatedAt(t, tbl, row)
        remote_updated_at == UnwrapOrDefault(UpdatedAtOf(t, row))
    IN  local_updated.ok /\ StrGt(local_updated.v, remote_updated_at)

RECURSIVE PullRows(_, _, _)
\* The loop over the fetched rows.  acc is [ok, tbl, collisions, applied]:
\* the table inside the transaction, the conflicts counted, the rows written.
\* A statement that fails ends the loop with ok = FALSE.
PullRows(t, rows, acc) ==
    IF rows = <<>> \/ ~acc.ok THEN acc
    ELSE LET row == Head(rows)
         IN  IF PkIncomplete(t, row) THEN PullRows(t, Tail(rows), acc)
             ELSE IF get_pks(t) = <<>> THEN [acc EXCEPT !.ok = FALSE]
             ELSE IF LocalWins(t, acc.tbl, row)
                  THEN PullRows(t, Tail(rows),
                                [acc EXCEPT !.collisions = @ + 1])
             ELSE IF Len(row) # Len(get_columns(t))
                  THEN [acc EXCEPT !.ok = FALSE]
             ELSE PullRows(t, Tail(rows),
                           [acc EXCEPT !.tbl = InsertOrReplace(t, @, row),
                                       !.applied = Append(@, row)])

\* The transaction without the rollback: what was written before the failing
\* statement stays.
PullTransaction_NoRollback(t, tbl, rows) ==
    PullRows(t, rows, [ok |-> TRUE, tbl |-> tbl, collisions |-> 0, applied |-> <<>>])

\* The transaction of pull_changes on local table tbl: its outcome and the
\* table afterwards (unchanged when a statement failed: the transaction is
\* dropped without commit).
PullTransaction(t, tbl, rows) ==
    LET r == PullRows(t, rows, [ok |-> TRUE, tbl |-> tbl, collisions |-> 0, applied |-> <<>>])
    IN  IF r.ok THEN r ELSE [r EXCEPT !.tbl = tbl]

\* ------------------------------------------------------------------- state

VARIABLES
    clock,        \* the wall clock chrono::Local::now() reads
    schema,       \* schema.tables(): the tables sync_all is given, in order
    local,        \* the local database: table name -> set of rows
    remote,       \* the remote database: table name -> set of rows
    sync_status,  \* the local ledger table: a set of sync_status rows
    inv,          \* the sync_all invocations: invocation -> its position
    task,         \* the spawned sync_table tasks: <<invocation, table>> -> task
    fs,           \* the files next to the database: file -> content ("" if absent)
    boot,         \* the call of init_db: its position and its locals
    db_state,     \* the DbState the application manages
    call,         \* the result of the last call of a DbState method
    http,         \* an answer to execute_remote_batch and the result returned for it
    table_info,   \* DynamicSchema::load: the PRAGMA table_info rows and the TableInfo
    llm,          \* a call of the tag-suggestion helper: its inputs and its result
    log,          \* the rolling log: the file and the RollingFileAppender
    button,       \* the SyncButton: its state, the syncs in flight, the pending timers
    drag,         \* the drag-and-drop signals and the last mouse event
    upd,          \* updater-flow: UpdateState, the calls in progress and their events
    xfer          \* two DbState managers: their locks and the calls that take them

\* The state of the sync engine, and the state of the bootstrap.
svars == <<clock, schema, local, remote, sync_status, inv, task>>
bvars == <<fs, boot, db_state, call, http>>

\* The state of the schema loader and of the other crates.
\* The state of the updater and of the lock-level view of DbState.
xvars == <<upd, xfer>>

cvars == <<table_info, llm, log, button, drag, xvars>>

vars ==
    <<clock, schema, local, remote, sync_status, inv, task, fs, boot, db_state, call, http,
      table_info, llm, log, button, drag, upd, xfer>>

\* sync_all may be invoked again while an invocation is still running (the
\* command layer starts it from a button and from a timer).
Invs == {1, 2}

TaskIds == DOMAIN task

\* conn_guard: the task holds the guard of the shared local connection.
IdleTask == [pc |-> "none", now |-> <<>>, last_sync_time |-> <<>>, rows |-> <<>>,
             collision_count |-> 0, conn_guard |-> FALSE]

\* pc, next, errors and result are sync_all's position, loop index, error
\* list and return value.  The other fields are history: how many times the
\* caller has invoked sync_all (round), and at a repeated call the ledger
\* (before) and whether a stored row was stamped later than its table's
\* stored watermark (late).
\* cols_to_check of ensure_remote_schema.
cols_to_check == {"updated_at", "created_at", "deleted_at"}

\* The add-column tasks ensure_remote_schema can spawn: one per table and
\* checked column.
AlterKeys == AllTables \X cols_to_check

IdleInv == [pc |-> "idle", next |-> 1, errors |-> <<>>, result |-> "none",
            round |-> 0, before |-> {}, late |-> FALSE,
            alter |-> [k \in AlterKeys |-> "none"]]

Finished(id) == task[id].pc \in {"ok", "failed"}

\* The rows the application and the other replicas write.
AppText == <<11>>

OtherText == <<12>>

RowOf(t, text, n) ==
    IF t = "links"
    THEN <<Some(<<1>>), Some(<<2>>), Some(Encode(updated_at_type(t), n))>>
    ELSE <<Some(<<1>>), Some(text), Some(Encode(updated_at_type(t), n))>>

\* ------------------------------------------------------------------ ledger

\* The default watermark of a table that has no ledger row.
DefaultWatermark(t) ==
    IF IsIntType(updated_at_type(t)) THEN ToDecimal(0) ELSE FormatDateTime(0)

\* SELECT last_sync_time FROM sync_status WHERE table_name = t, then
\* rows.first(): the stored watermark, or the default when there is no row.
StoredWatermark(t, ledger, default) ==
    IF \E r \in ledger : r.table_name = t
    THEN (CHOOSE r \in ledger : r.table_name = t).last_sync_time
    ELSE default

\* NaiveDateTime::and_utc().timestamp_millis(): the date-time read as UTC.
DateTimeToMillis(n) == n

\* The repair of a watermark that is not a number although updated_at is an
\* integer column: a legacy date-time text is converted, anything else is 0.
NormalizeWatermark(ty, s) ==
    IF IsIntType(ty) /\ ~ParseI64(s).ok
    THEN IF ParseDateTime(s).ok
         THEN ToDecimal(DateTimeToMillis(ParseDateTime(s).n))
         ELSE ToDecimal(0)
    ELSE s

\* The rows of sync_status an inserted row of table_name t conflicts with:
\* table_name is the unique key of sync_status (the table is created outside
\* this repository's sources).
SyncStatusConflict(t, ledger) == {r \in ledger : r.table_name = t}

\* INSERT OR REPLACE INTO sync_status (...) VALUES (t, now, 'both',
\* COALESCE((SELECT sync_count FROM sync_status WHERE table_name = t) + 1, 1))
UpsertSyncStatus(t, ledger, now) ==
    LET prior == SyncStatusConflict(t, ledger)
        count == IF prior = {} THEN 1
                 ELSE (CHOOSE r \in prior : TRUE).sync_count + 1
    IN  (ledger \ prior) \cup
        {[table_name |-> t, last_sync_time |-> now,
          last_sync_direction |-> "both", sync_count |-> count]}

\* ---------------------------------------------------------------- sync_all

\* The table has the column the WHERE clause of the push select names; the
\* select fails on a table without it.
HasUpdatedAt(t) == get_column_type(t, "updated_at") # ""

InSchema(t) == \E k \in 1..Len(schema) : schema[k] = t

\* Some stored row of a synced table is stamped later than the table's stored
\* watermark.
LateRows ==
    \E t \in AllTables : InSchema(t) /\
        \E r \in local[t] \cup remote[t] :
            SqlGreater(updated_at_type(t), UpdatedAtOf(t, r),
                       StoredWatermark(t, sync_status, DefaultWatermark(t)))

\* The spawn loop of ensure_remote_schema: one add-column task for each
\* checked column the local schema has in a table of the schema.
SpawnAlters ==
    [k \in AlterKeys |->
        IF InSchema(k[1]) /\ get_column_type(k[1], k[2]) # "" THEN "running" ELSE "none"]

\* sync_all is called: it starts with ensure_remote_schema, which spawns its
\* add-column tasks.
sync_all_call(i) ==
    /\ inv[i].pc = "idle"
    /\ inv' = [inv EXCEPT ![i].pc = "schema", ![i].round = 1, ![i].alter = SpawnAlters]
    /\ UNCHANGED <<bvars, cvars, clock, schema, local, remote, sync_status, task>>

\* The caller invokes sync_all again after it returned Ok.
sync_all_again(i) ==
    /\ inv[i].pc = "returned"
    /\ inv[i].result = "ok"
    /\ inv[i].round < MaxRounds
    /\ inv' = [inv EXCEPT ![i] = [IdleInv EXCEPT !.pc = "schema",
                                                  !.round = inv[i].round + 1,
                                                  !.before = sync_status,
                                                  !.late = LateRows,
                                                  !.alter = SpawnAlters]]
    /\ UNCHANGED <<bvars, cvars, clock, schema, local, remote, sync_status, task>>

\* One add-column task runs its ALTER TABLE ... ADD COLUMN: the remote
\* accepts it, or the statement or the request fails (the column exists, the
\* remote cannot be reached); the result is ignored.
alter_column(i, k) ==
    /\ inv[i].pc = "schema"
    /\ inv[i].alter[k] = "running"
    /\ \E outcome \in {"ok", "err"} : inv' = [inv EXCEPT ![i].alter[k] = outcome]
    /\ UNCHANGED <<bvars, cvars, clock, schema, local, remote, sync_status, task>>

\* Every add-column task has been awaited.
AltersDone(i) == \A k \in AlterKeys : inv[i].alter[k] # "running"

\* The tables sync_all spawns a task for.
TablesToSpawn(i) == {schema[k] : k \in 1..Len(schema)}

\* sync_all_spawn without the wait for the add-column tasks.
sync_all_spawn_NoWait(i) ==
    /\ inv[i].pc = "schema"
    /\ inv' = [inv EXCEPT ![i].pc = "join",
                          ![i].alter = [k \in AlterKeys |-> "none"]]
    /\ task' = [id \in TaskIds |->
                  IF id[1] = i /\ id[2] \in TablesToSpawn(i)
                  THEN [IdleTask EXCEPT !.pc = "spawned"]
                  ELSE task[id]]
    /\ UNCHANGED <<bvars, cvars, clock, schema, local, remote, sync_status>>

\* ensure_remote_schema has awaited its tasks and returned Ok, its task list
\* dropped; one sync_table task is spawned per table of the schema.
sync_all_spawn(i) ==
    /\ inv[i].pc = "schema"
    /\ AltersDone(i)
    /\ inv' = [inv EXCEPT ![i].pc = "join",
                          ![i].alter = [k \in AlterKeys |-> "none"]]
    /\ task' = [id \in TaskIds |->
                  IF id[1] = i /\ id[2] \in TablesToSpawn(i)
                  THEN [IdleTask EXCEPT !.pc = "spawned"]
                  ELSE task[id]]
    /\ UNCHANGED <<bvars, cvars, clock, schema, local, remote, sync_status>>

\* CollectError that keeps only the first error.
CollectError_FirstOnly(errors, id) ==
    IF task[id].pc = "failed" /\ errors = <<>> THEN Append(errors, id[2]) ELSE errors

\* The list of errors after the awaited task's result is looked at.
CollectError(errors, id) ==
    IF task[id].pc = "failed" THEN Append(errors, id[2]) ELSE errors

\* One turn of "for task in tasks { task.await }": the next task, in spawn
\* order, has finished and its result is collected.
sync_all_join(i) ==
    /\ inv[i].pc = "join"
    /\ inv[i].next <= Len(schema)
    /\ LET id == <<i, schema[inv[i].next]>>
       IN  /\ Finished(id)
           /\ inv' = [inv EXCEPT ![i].next = @ + 1,
                                 ![i].errors = CollectError(@, id)]
    /\ UNCHANGED <<bvars, cvars, clock, schema, local, remote, sync_status, task>>

\* sync_all_return that also returns as soon as an error is collected.
sync_all_return_OnFirstError(i) ==
    /\ inv[i].pc = "join"
    /\ inv[i].next > Len(schema) \/ inv[i].errors # <<>>
    /\ inv' = [inv EXCEPT ![i].pc = "returned",
                          ![i].result = IF inv[i].errors # <<>> THEN "err" ELSE "ok"]
    /\ UNCHANGED <<bvars, cvars, clock, schema, local, remote, sync_status, task>>

\* The loop has ended: Err with the collected errors, or Ok.
sync_all_return(i) ==
    /\ inv[i].pc = "join"
    /\ inv[i].next > Len(schema)
    /\ inv' = [inv EXCEPT ![i].pc = "returned",
                          ![i].result = IF inv[i].errors # <<>> THEN "err" ELSE "ok"]
    /\ UNCHANGED <<bvars, cvars, clock, schema, local, remote, sync_status, task>>

\* -------------------------------------------------------------- sync_table

\* A task ends with Err: a local storage error (the connection is not
\* initialized, a statement fails) or a failed remote call.
Fail(id) == task' = [task EXCEPT ![id].pc = "failed", ![id].rows = <<>>,
                                ![id].conn_guard = FALSE]

\* The positions of sync_table at which it works on the local database: the
\* watermark read, the push select, the pull transaction, the ledger upsert.
LocalPcs == {"read_watermark", "push_read", "pull_apply", "ledger"}

\* No task holds the guard of the shared connection: the one exclusive lock
\* of DbState is free.
ConnFree == \A o \in TaskIds : ~task[o].conn_guard

\* "let conn_guard = state.get_connection().await": the task waits until the
\* lock is free and takes it.
take_conn_guard(id) ==
    /\ task[id].pc \in LocalPcs
    /\ ~task[id].conn_guard
    /\ ConnFree
    /\ task' = [task EXCEPT ![id].conn_guard = TRUE]
    /\ UNCHANGED <<bvars, cvars, clock, schema, local, remote, sync_status, inv>>

\* "let now = ...": the clock is read when the task starts to run.
capture_now(id) ==
    /\ task[id].pc = "spawned"
    /\ task' = [task EXCEPT ![id].pc = "read_watermark",
                            ![id].now = Encode(updated_at_type(id[2]), clock)]
    /\ UNCHANGED <<bvars, cvars, clock, schema, local, remote, sync_status, inv>>

\* Under the guard the stored watermark is read and repaired; the guard is
\* dropped before the push.
read_watermark(id) ==
    /\ task[id].pc = "read_watermark"
    /\ task[id].conn_guard
    /\ task' = [task EXCEPT
                  ![id].pc = "push_read",
                  ![id].conn_guard = FALSE,
                  ![id].last_sync_time =
                      NormalizeWatermark(updated_at_type(id[2]),
                          StoredWatermark(id[2], sync_status, DefaultWatermark(id[2])))]
    /\ UNCHANGED <<bvars, cvars, clock, schema, local, remote, sync_status, inv>>

\* push_read without drop(conn_guard): the guard is kept over the remote call.
push_read_KeepGuard(id) ==
    /\ task[id].pc = "push_read"
    /\ task[id].conn_guard
    /\ IF HasUpdatedAt(id[2])
       THEN LET rows == SelectNewer(id[2], local[id[2]], task[id].last_sync_time)
            IN  task' = [task EXCEPT
                           ![id].pc = IF rows = <<>> THEN "pull_fetch" ELSE "push_send",
                           ![id].rows = rows]
       ELSE Fail(id)
    /\ UNCHANGED <<bvars, cvars, clock, schema, local, remote, sync_status, inv>>

\* push_changes up to the release of the connection: under the guard the
\* rows to push are selected, and the guard is dropped.  On a table without
\* the column the select fails and the cycle ends with its error.
push_read(id) ==
    /\ task[id].pc = "push_read"
    /\ task[id].conn_guard
    /\ IF HasUpdatedAt(id[2])
       THEN LET rows == SelectNewer(id[2], local[id[2]], task[id].last_sync_time)
            IN  task' = [task EXCEPT
                           ![id].pc = IF rows = <<>> THEN "pull_fetch" ELSE "push_send",
                           ![id].conn_guard = FALSE,
                           ![id].rows = rows]
       ELSE Fail(id)
    /\ UNCHANGED <<bvars, cvars, clock, schema, local, remote, sync_status, inv>>

\* execute_remote_batch answers 2xx and every statement succeeded.
push_send_ok(id) ==
    /\ task[id].pc = "push_send"
    /\ remote' = [remote EXCEPT ![id[2]] = ApplyBatch(id[2], @, task[id].rows)]
    /\ task' = [task EXCEPT ![id].pc = "pull_fetch", ![id].rows = <<>>]
    /\ UNCHANGED <<bvars, cvars, clock, schema, local, sync_status, inv>>

\* execute_remote_batch fails: the request fails or is answered non-2xx
\* (n = 0), a statement reports an error after n statements before it took
\* effect, or the body of the answer cannot be read after all the statements
\* took effect.
push_send_err(id) ==
    /\ task[id].pc = "push_send"
    /\ \E n \in 0..Len(task[id].rows) :
         remote' = [remote EXCEPT
                      ![id[2]] = ApplyBatch(id[2], @, SubSeq(task[id].rows, 1, n))]
    /\ Fail(id)
    /\ UNCHANGED <<bvars, cvars, clock, schema, local, sync_status, inv>>

\* execute_remote_batch is answered 2xx with a body that does not parse as the
\* result array: a warning is printed and Ok(()) returned.  Nothing tells
\* whether the statements ran.
push_send_unparsed(id) ==
    /\ task[id].pc = "push_send"
    /\ \E ran \in BOOLEAN :
         remote' = [remote EXCEPT
                      ![id[2]] = IF ran THEN ApplyBatch(id[2], @, task[id].rows) ELSE @]
    /\ task' = [task EXCEPT ![id].pc = "pull_fetch", ![id].rows = <<>>]
    /\ UNCHANGED <<bvars, cvars, clock, schema, local, sync_status, inv>>

\* fetch_remote_rows: the remote rows newer than the watermark.
pull_fetch(id) ==
    /\ task[id].pc = "pull_fetch"
    /\ LET rows == SelectNewer(id[2], remote[id[2]], task[id].last_sync_time)
       IN  task' = [task EXCEPT
                      ![id].pc = IF rows = <<>> THEN "ledger" ELSE "pull_apply",
                      ![id].rows = rows]
    /\ UNCHANGED <<bvars, cvars, clock, schema, local, remote, sync_status, inv>>

\* The local transaction of pull_changes, under the guard, which is dropped
\* when pull_changes returns.
pull_apply(id) ==
    /\ task[id].pc = "pull_apply"
    /\ task[id].conn_guard
    /\ LET r == PullTransaction(id[2], local[id[2]], task[id].rows)
       IN  /\ local' = [local EXCEPT ![id[2]] = r.tbl]
           /\ task' = [task EXCEPT
                         ![id].pc = IF r.ok THEN "ledger" ELSE "failed",
                         ![id].conn_guard = FALSE,
                         ![id].rows = <<>>,
                         ![id].collision_count = r.collisions]
    /\ UNCHANGED <<bvars, cvars, clock, schema, remote, sync_status, inv>>

\* update_sync_status with the ledger stamped by the clock at the end of the
\* cycle instead of the now captured at its start.
update_sync_status_AtEnd(id) ==
    /\ task[id].pc = "ledger"
    /\ task[id].conn_guard
    /\ sync_status' = UpsertSyncStatus(id[2], sync_status,
                                       Encode(updated_at_type(id[2]), clock))
    /\ task' = [task EXCEPT ![id].pc = "ok", ![id].conn_guard = FALSE]
    /\ UNCHANGED <<bvars, cvars, clock, schema, local, remote, inv>>

\* Under the guard the ledger row is upserted; sync_table returns Ok and the
\* guard is dropped.
update_sync_status(id) ==
    /\ task[id].pc = "ledger"
    /\ task[id].conn_guard
    /\ sync_status' = UpsertSyncStatus(id[2], sync_status, task[id].now)
    /\ task' = [task EXCEPT ![id].pc = "ok", ![id].conn_guard = FALSE]
    /\ UNCHANGED <<bvars, cvars, clock, schema, local, remote, inv>>

\* step_fails with the ledger upserted although the cycle fails.
step_fails_Stamped(id) ==
    /\ task[id].pc \in {"read_watermark", "push_read", "pull_fetch", "pull_apply", "ledger"}
    /\ Fail(id)
    /\ sync_status' = UpsertSyncStatus(id[2], sync_status, task[id].now)
    /\ UNCHANGED <<bvars, cvars, clock, schema, local, remote, inv>>

\* A step of the task fails without effect: the connection cannot be taken,
\* a local statement fails, or the remote call of pull fails.
step_fails(id) ==
    /\ task[id].pc \in {"read_watermark", "push_read", "pull_fetch", "pull_apply", "ledger"}
    /\ Fail(id)
    /\ UNCHANGED <<bvars, cvars, clock, schema, local, remote, sync_status, inv>>

\* ------------------------------------------------------------- environment

Tick ==
    /\ clock < MaxTime
    /\ clock' = clock + 1
    /\ UNCHANGED <<bvars, cvars, schema, local, remote, sync_status, inv, task>>

\* The application writes a row of a synced table, stamped with the clock.
LocalWrite(t) ==
    /\ InSchema(t)
    /\ local' = [local EXCEPT ![t] = InsertOrReplace(t, @, RowOf(t, AppText, clock))]
    /\ UNCHANGED <<bvars, cvars, clock, schema, remote, sync_status, inv, task>>

\* Another replica pushes a row, stamped with its own clock, with the same
\* guarded upsert.
OtherPush(t, n) ==
    /\ InSchema(t)
    /\ remote' = [remote EXCEPT ![t] = UpsertIfNewer(t, @, RowOf(t, OtherText, n))]
    /\ UNCHANGED <<bvars, cvars, clock, schema, local, sync_status, inv, task>>

\* ========================================================= schema loader

\* The rows PRAGMA table_info returns for a table, in column order: the
\* name, the declared type and the primary-key ordinal of each column (0 for
\* a column outside the key, 1.. for the columns of the key).
ColumnNames == {"id", "ID", "a", "b"}

\* The most columns of a table.
MaxColumns == 3

TypeOfColumn(name) == IF name \in {"id", "ID"} THEN "INTEGER" ELSE "TEXT"

\* The ordinals of a table's columns are 0 or the numbers 1..k, each once.
OrdinalsOf(n) ==
    {f \in [1..n -> 0..n] :
        LET key == {j \in 1..n : f[j] > 0}
        IN  /\ \A j, k \in key : j # k => f[j] # f[k]
            /\ \A j \in key : f[j] <= Cardinality(key)}

PragmaRows ==
    UNION {{[j \in 1..n |-> [name |-> names[j], col_type |-> TypeOfColumn(names[j]),
                             pk_idx |-> ords[j]]] :
              names \in {x \in [1..n -> ColumnNames] :
                            \A j, k \in 1..n : j # k => x[j] # x[k]},
              ords \in OrdinalsOf(n)} : n \in 0..MaxColumns}

\* The elements of sequence q that satisfy pk_idx > 0, in order.
RECURSIVE KeyColumns(_)
KeyColumns(q) ==
    IF q = <<>> THEN <<>>
    ELSE IF q[1].pk_idx > 0 THEN <<q[1]>> \o KeyColumns(Tail(q))
    ELSE KeyColumns(Tail(q))

\* c inserted into the sorted sequence q after the elements whose key is not
\* greater: a stable insertion.
RECURSIVE InsertByKey(_, _)
InsertByKey(q, c) ==
    IF q = <<>> THEN <<c>>
    ELSE IF q[1].pk_idx <= c.pk_idx THEN <<q[1]>> \o InsertByKey(Tail(q), c)
    ELSE <<c>> \o q

\* pk_cols.sort_by_key(|c| c.pk_idx): a stable sort.
RECURSIVE sort_by_key(_)
sort_by_key(q) ==
    IF q = <<>> THEN <<>>
    ELSE InsertByKey(sort_by_key(SubSeq(q, 1, Len(q) - 1)), q[Len(q)])

NamesOf(q) == [j \in 1..Len(q) |-> q[j].name]

\* The pks of load without the sort.
LoadPks_Unsorted(rows) ==
    LET pks == NamesOf(KeyColumns(rows))
    IN  IF pks = <<>> /\ \E j \in 1..Len(rows) : rows[j].name = "id"
        THEN <<"id">> ELSE pks

\* The pks DynamicSchema::load stores for a table.
LoadPks(rows) ==
    LET pks == NamesOf(sort_by_key(KeyColumns(rows)))
    IN  IF pks = <<>> /\ \E j \in 1..Len(rows) : rows[j].name = "id"
        THEN <<"id">> ELSE pks

NoTableInfo == [rows |-> <<>>, loaded |-> FALSE, columns |-> <<>>, pks |-> <<>>]

\* DynamicSchema::load for one table.
load ==
    /\ ~table_info.loaded
    /\ table_info' = [table_info EXCEPT !.loaded = TRUE,
                                         !.columns = NamesOf(table_info.rows),
                                         !.pks = LoadPks(table_info.rows)]
    /\ UNCHANGED <<svars, bvars, xvars, llm, log, button, drag>>

\* ====================================================== tag suggestion
\* llm-flow: generate_tags_llm (a title) and generate_image_tags_llm (the
\* file stem of an image path).  Strings are sequences of characters; scores
\* and thresholds are in tenths.

Chars == {"a", "b", "c", "x", "A", "C", "_"}

is_alphanumeric(c) == c # "_"

LowerChar(c) == IF c = "A" THEN "a" ELSE IF c = "C" THEN "c" ELSE c

to_lowercase(w) == [j \in 1..Len(w) |-> LowerChar(w[j])]

\* The labels the caller passes and the names of the file or title.
LabelSet == {<<"a">>, <<"b">>, <<"a", "b">>, <<"C">>}
TagNames == {<<"a", "_", "b">>, <<"a", "b">>, <<"c">>, <<"x">>}

\* The most labels of a call and the most items of an answer.
MaxLabels == 2
MaxAnswerItems == 2

contains(w, sub) ==
    \E j \in 1..(Len(w) - Len(sub) + 1) : SubSeq(w, j, j + Len(sub) - 1) = sub

starts_with(w, sub) == Len(sub) <= Len(w) /\ SubSeq(w, 1, Len(sub)) = sub

ends_with(w, sub) ==
    Len(sub) <= Len(w) /\ SubSeq(w, Len(w) - Len(sub) + 1, Len(w)) = sub

\* The maximal runs of alphanumeric characters of w.
TokensOf(w) ==
    {SubSeq(w, j, k) : j \in 1..Len(w), k \in 1..Len(w)} \cap
    {SubSeq(w, j, k) : <<j, k>> \in
        {x \in (1..Len(w)) \X (1..Len(w)) :
            /\ x[1] <= x[2]
            /\ \A m \in x[1]..x[2] : is_alphanumeric(w[m])
            /\ (x[1] = 1 \/ ~is_alphanumeric(w[x[1] - 1]))
            /\ (x[2] = Len(w) \/ ~is_alphanumeric(w[x[2] + 1]))}}

\* The substring score of label l against the lower-cased name.
SubstringScore(lname, l) ==
    LET ln == to_lowercase(l)
    IN  IF ln = <<>> THEN 0
        ELSE (IF contains(lname, ln) THEN 10 ELSE 0)
             + (IF ln \in TokensOf(lname) THEN 8 ELSE 0)
             + (IF starts_with(lname, ln) \/ ends_with(lname, ln) THEN 4 ELSE 0)

\* q with c inserted after the elements whose score is not smaller: the
\* stable sort by descending score.
RECURSIVE InsertByScore(_, _)
InsertByScore(q, c) ==
    IF q = <<>> THEN <<c>>
    ELSE IF q[1].score >= c.score THEN <<q[1]>> \o InsertByScore(Tail(q), c)
    ELSE <<c>> \o q

RECURSIVE SortByScore(_)
SortByScore(q) ==
    IF q = <<>> THEN <<>>
    ELSE InsertByScore(SortByScore(SubSeq(q, 1, Len(q) - 1)), q[Len(q)])

\* iter().filter(..): the elements that satisfy Keep, in order.
Filter(q, Keep(_)) == SelectSeq(q, Keep)

take(q, n) == SubSeq(q, 1, IF n < Len(q) THEN n ELSE Len(q))

\* The answers of the completion API: a timeout or failure, or the items of
\* the content (content that is not JSON gives no items).
AnswerNames == {<<"a">>, <<"c">>, <<"x">>}
Confidences == {3, 9}
AnswerItems == [name : AnswerNames, confidence : Confidences]
LlmAnswers ==
    {[ok |-> FALSE, items |-> <<>>]} \cup
    {[ok |-> TRUE, items |-> q] :
        q \in UNION {[1..n -> AnswerItems] : n \in 0..MaxAnswerItems}}

Thresholds == {0, 5}
TopKs == 0..2

RecommendItem(name, score, source) ==
    [name |-> name, score |-> score, source |-> source]

\* The final filter and cut of both helpers.
Selected_NoThreshold(out, threshold, top_k) == take(SortByScore(out), top_k)

Selected(out, threshold, top_k) ==
    LET Above(x) == x.score >= threshold
    IN  take(Filter(SortByScore(out), Above), top_k)

\* generate_tags_llm: the items of the answer whose name is one of the
\* labels, and nothing else.
TextItems(c) ==
    LET Allowed(it) == \E j \in 1..Len(c.labels) : c.labels[j] = it.name
        kept == Filter(c.answer.items, Allowed)
    IN  [j \in 1..Len(kept) |-> RecommendItem(kept[j].name, kept[j].confidence, "llm")]

\* generate_image_tags_llm: the items of the answer whose lower-cased name
\* is a lower-cased label.
VisionItems(c) ==
    LET Allowed(it) ==
            \E j \in 1..Len(c.labels) : to_lowercase(c.labels[j]) = to_lowercase(it.name)
        kept == Filter(c.answer.items, Allowed)
    IN  [j \in 1..Len(kept) |->
            RecommendItem(kept[j].name, kept[j].confidence, "llm-vision")]

\* The fallback of generate_image_tags_llm: the labels that score above
\* zero, by descending score, at most top_k, each with score 0.0.
RuleItems(c) ==
    LET lname == to_lowercase(c.name)
        scored == [j \in 1..Len(c.labels) |->
                      [name |-> c.labels[j], score |-> SubstringScore(lname, c.labels[j])]]
        Positive(x) == x.score > 0
        best == take(SortByScore(Filter(scored, Positive)), c.top_k)
    IN  [j \in 1..Len(best) |-> RecommendItem(best[j].name, 0, "rule")]

LlmCalls ==
    {[fn |-> f, name |-> n, labels |-> l, answer |-> a, threshold |-> th, top_k |-> k,
      returned |-> FALSE, ok |-> FALSE, out |-> <<>>] :
        f \in {"generate_tags_llm", "generate_image_tags_llm"},
        n \in TagNames,
        l \in UNION {{q \in [1..m -> LabelSet] : \A i, j \in 1..m : i # j => q[i] # q[j]} :
                        m \in 0..MaxLabels},
        a \in LlmAnswers, th \in Thresholds, k \in TopKs}

NoLlm ==
    [fn |-> "generate_tags_llm", name |-> <<>>, labels |-> <<>>,
     answer |-> [ok |-> FALSE, items |-> <<>>], threshold |-> 0, top_k |-> 0,
     returned |-> FALSE, ok |-> FALSE, out |-> <<>>]

generate_tags_llm ==
    /\ llm.fn = "generate_tags_llm"
    /\ ~llm.returned
    /\ llm' = IF ~llm.answer.ok
              THEN [llm EXCEPT !.returned = TRUE, !.ok = FALSE]
              ELSE [llm EXCEPT !.returned = TRUE, !.ok = TRUE,
                        !.out = Selected(TextItems(llm), llm.threshold, llm.top_k)]
    /\ UNCHANGED <<svars, bvars, xvars, table_info, log, button, drag>>

generate_image_tags_llm ==
    /\ llm.fn = "generate_image_tags_llm"
    /\ ~llm.returned
    /\ llm' = IF ~llm.answer.ok
              THEN [llm EXCEPT !.returned = TRUE, !.ok = FALSE]
              ELSE LET out == IF VisionItems(llm) = <<>> THEN RuleItems(llm)
                              ELSE VisionItems(llm)
                   IN  [llm EXCEPT !.returned = TRUE, !.ok = TRUE,
                            !.out = Selected(out, llm.threshold, llm.top_k)]
    /\ UNCHANGED <<svars, bvars, xvars, table_info, log, button, drag>>

\* ========================================================= rolling log
\* rolling-logger: RollingFileAppender on the file app.log.  A byte of the
\* file is [w, latest]: w is the length of the UTF-8 character the byte
\* starts (0 for a continuation byte), latest marks the bytes of the entry
\* written last.

\* MAX_LOG_SIZE of the appender, scaled from 10 MiB.
MAX_LOG_SIZE == 4

\* The most bytes of one entry and the most writes of a behaviour.
MaxEntryBytes == 3
MaxWrites == 3

CharWidths == {1, 2}

RECURSIVE SumWidths(_)
SumWidths(e) == IF e = <<>> THEN 0 ELSE e[1] + SumWidths(Tail(e))

\* The strings of at most n bytes, as the widths of their characters.
StringsUpTo(n) ==
    {e \in UNION {[1..m -> CharWidths] : m \in 0..n} : SumWidths(e) <= n}

\* The formatted entries: not empty.
Entries == {e \in StringsUpTo(MaxEntryBytes) : e # <<>>}

\* formatted_entry.as_bytes().
RECURSIVE as_bytes(_, _)
as_bytes(e, latest) ==
    IF e = <<>> THEN <<>>
    ELSE <<[w |-> e[1], latest |-> latest]>>
         \o [j \in 1..(e[1] - 1) |-> [w |-> 0, latest |-> latest]]
         \o as_bytes(Tail(e), latest)

\* The bytes are the encoding of a string.
RECURSIVE ValidUtf8(_)
ValidUtf8(q) ==
    \/ q = <<>>
    \/ /\ q[1].w >= 1
       /\ q[1].w <= Len(q)
       /\ \A j \in 2..q[1].w : q[j].w = 0
       /\ ValidUtf8(SubSeq(q, q[1].w + 1, Len(q)))

\* The bytes with the mark of the latest entry removed.
Older(q) == [j \in 1..Len(q) |-> [q[j] EXCEPT !.latest = FALSE]]

\* write_all at the cursor of a file opened without append.
WriteAt(file, cursor, bytes) ==
    SubSeq(file, 1, cursor) \o bytes \o SubSeq(file, cursor + Len(bytes) + 1, Len(file))

NoContent == [some |-> FALSE, ok |-> FALSE, text |-> <<>>]

NoLog ==
    [opened |-> FALSE, file |-> <<>>, cursor |-> 0, current_position |-> 0,
     file_size |-> 0, writes |-> 0, last |-> <<>>, wrapped |-> FALSE, content |-> NoContent]

\* RollingFileAppender::new on a new or an existing app.log.
new ==
    /\ ~log.opened
    /\ LET file_size == Len(log.file)
           current_position == IF file_size >= MAX_LOG_SIZE THEN 0 ELSE file_size
       IN  log' = [log EXCEPT !.opened = TRUE, !.cursor = current_position,
                              !.current_position = current_position,
                              !.file_size = file_size]
    /\ UNCHANGED <<svars, bvars, xvars, table_info, llm, button, drag>>

\* RollingFileAppender::write.
write ==
    /\ log.opened
    /\ log.writes < MaxWrites
    /\ \E e \in Entries :
         LET entry_size == SumWidths(e)
             wrap == log.current_position + entry_size > MAX_LOG_SIZE
             pos == IF wrap THEN 0 ELSE log.current_position
             cur == IF wrap THEN 0 ELSE log.cursor
             end == pos + entry_size
         IN  log' = [log EXCEPT
                 !.file = WriteAt(Older(log.file), cur, as_bytes(e, TRUE)),
                 !.cursor = cur + entry_size,
                 !.current_position = end,
                 !.file_size = IF end > log.file_size THEN end ELSE log.file_size,
                 !.writes = @ + 1, !.last = e, !.wrapped = wrap,
                 !.content = NoContent]
    /\ UNCHANGED <<svars, bvars, xvars, table_info, llm, button, drag>>

\* RollingFileAppender::read_logs: the whole file from offset 0, an error
\* when the bytes are not UTF-8; the cursor stays at the end of the file.
read_logs ==
    /\ log.opened
    /\ ~log.content.some
    /\ log' = [log EXCEPT
           !.cursor = Len(log.file),
           !.content = IF ValidUtf8(log.file)
                       THEN [some |-> TRUE, ok |-> TRUE, text |-> log.file]
                       ELSE [some |-> TRUE, ok |-> FALSE, text |-> <<>>]]
    /\ UNCHANGED <<svars, bvars, xvars, table_info, llm, button, drag>>

\* RollingFileAppender::current_size.
current_size == log.file_size

\* ========================================================= sync button
\* tauri-sync-db-frontend: SyncButton.  in_flight counts the manual_sync
\* invocations that have not returned, timers the pending two-second
\* timeouts; event is the last event handled.

SyncState == {"Idle", "Syncing", "Success", "Error"}

\* The most syncs one behaviour starts.
MaxSyncs == 6

NoButton ==
    [sync_state |-> "Idle", in_flight |-> 0, timers |-> 0, started |-> 0, event |-> "none"]

\* do_sync, the click handler: nothing while the state is Syncing, else the
\* state becomes Syncing and manual_sync is invoked.
do_sync ==
    /\ button.started < MaxSyncs
    /\ button' = IF button.sync_state = "Syncing"
                 THEN [button EXCEPT !.event = "click ignored"]
                 ELSE [button EXCEPT !.sync_state = "Syncing", !.in_flight = @ + 1,
                                     !.started = @ + 1, !.event = "click"]
    /\ UNCHANGED <<svars, bvars, xvars, table_info, llm, log, drag>>

\* manual_sync returns Ok or Err: the state becomes Success or Error and a
\* timeout of two seconds is set.
manual_sync_returns ==
    /\ button.in_flight > 0
    /\ \E result \in {"Success", "Error"} :
         button' = [button EXCEPT !.sync_state = result, !.in_flight = @ - 1,
                                  !.timers = @ + 1, !.event = "returned"]
    /\ UNCHANGED <<svars, bvars, xvars, table_info, llm, log, drag>>

\* A timeout fires: the state becomes Idle.
timeout_fires ==
    /\ button.timers > 0
    /\ button' = [button EXCEPT !.sync_state = "Idle", !.timers = @ - 1,
                                !.event = "timeout"]
    /\ UNCHANGED <<svars, bvars, xvars, table_info, llm, log, drag>>

\* ======================================================== drag and drop
\* leptos-dragdrop: the DndSignals and the mouse handlers.  Besides the
\* signals the state records the pending 100 ms timeouts, whether the left
\* button is held, the last event, the arguments of an on_drop call made by
\* the last event, the position of the last left mousedown and whether the
\* mouse has moved beyond the threshold from it since.

DRAG_THRESHOLD_PX == 5

ItemIds == {1, 2}
Coords == {0, 5, 6}
MouseButtons == {0, 2}
TargetElements == {"div", "input", "button"}
DropTargets == {<<"Item", 1>>, <<"Item", 2>>, <<"Zone", 0>>, <<"File", 0>>}

\* The most pending timeouts of drag_just_ended.
MaxDragTimers == 1

abs(n) == IF n < 0 THEN 0 - n ELSE n

MouseEvent(type, x, y) == [type |-> type, x |-> x, y |-> y]

\* create_dnd_signals, no event handled yet.
NoDrag ==
    [dragging_id |-> None, drop_target |-> None, drag_just_ended |-> FALSE,
     pending_id |-> None, start_x |-> 0, start_y |-> 0,
     timers |-> 0, left_down |-> FALSE, event |-> MouseEvent("none", 0, 0),
     dropped |-> None, moved |-> FALSE, down_x |-> 0, down_y |-> 0]

\* end_drag that leaves drop_target as it is.
end_drag_KeepsTarget(d) ==
    [d EXCEPT !.dragging_id = None, !.pending_id = None,
              !.drag_just_ended = TRUE, !.timers = @ + 1]

\* end_drag on the signals d.
end_drag(d) ==
    [d EXCEPT !.dragging_id = None, !.drop_target = None, !.pending_id = None,
              !.drag_just_ended = TRUE, !.timers = @ + 1]

\* The handler of make_on_mousedown(item_id).  The browser sends a left
\* mousedown only while the left button is up.
on_mousedown ==
    \E item_id \in ItemIds, b \in MouseButtons, el \in TargetElements,
       x \in Coords, y \in Coords :
        /\ b = 0 => ~drag.left_down
        /\ LET seen == [drag EXCEPT
                           !.event = MouseEvent("mousedown " \o el, x, y),
                           !.dropped = None,
                           !.left_down = IF b = 0 THEN TRUE ELSE @,
                           !.moved = IF b = 0 THEN FALSE ELSE @,
                           !.down_x = IF b = 0 THEN x ELSE @,
                           !.down_y = IF b = 0 THEN y ELSE @]
           IN  drag' = IF b = 0 /\ el \notin {"input", "button"}
                       THEN [seen EXCEPT !.pending_id = Some(item_id),
                                         !.start_x = x, !.start_y = y]
                       ELSE seen
        /\ UNCHANGED <<svars, bvars, xvars, table_info, llm, log, button>>

\* The mousemove handler that starts the drag on any movement.
on_mousemove_NoThreshold ==
    \E x \in Coords, y \in Coords :
        /\ LET seen == [drag EXCEPT
                           !.event = MouseEvent("mousemove", x, y),
                           !.dropped = None,
                           !.moved = @ \/ (drag.left_down /\
                                           (abs(x - drag.down_x) > DRAG_THRESHOLD_PX
                                            \/ abs(y - drag.down_y) > DRAG_THRESHOLD_PX))]
           IN  drag' = IF drag.pending_id.some /\ ~drag.dragging_id.some
                       THEN [seen EXCEPT !.dragging_id = drag.pending_id]
                       ELSE seen
        /\ UNCHANGED <<svars, bvars, xvars, table_info, llm, log, button>>

\* The handler of bind_global_mousemove.
on_mousemove ==
    \E x \in Coords, y \in Coords :
        /\ LET seen == [drag EXCEPT
                           !.event = MouseEvent("mousemove", x, y),
                           !.dropped = None,
                           !.moved = @ \/ (drag.left_down /\
                                           (abs(x - drag.down_x) > DRAG_THRESHOLD_PX
                                            \/ abs(y - drag.down_y) > DRAG_THRESHOLD_PX))]
               dx == abs(x - drag.start_x)
               dy == abs(y - drag.start_y)
           IN  drag' = IF /\ drag.pending_id.some /\ ~drag.dragging_id.some
                          /\ (dx > DRAG_THRESHOLD_PX \/ dy > DRAG_THRESHOLD_PX)
                       THEN [seen EXCEPT !.dragging_id = drag.pending_id]
                       ELSE seen
        /\ UNCHANGED <<svars, bvars, xvars, table_info, llm, log, button>>

\* The mouseenter handlers without the test for the dragged item itself.
on_mouseenter_AnyItem ==
    \E target \in DropTargets :
        /\ LET seen == [drag EXCEPT
                           !.event = MouseEvent("mouseenter " \o target[1], target[2], 0),
                           !.dropped = None]
           IN  drag' = IF drag.dragging_id.some
                       THEN [seen EXCEPT !.drop_target = Some(target)]
                       ELSE seen
        /\ UNCHANGED <<svars, bvars, xvars, table_info, llm, log, button>>

\* The handlers of make_on_item_mouseenter, make_on_zone_mouseenter and
\* make_on_file_mouseenter.
on_mouseenter ==
    \E target \in DropTargets :
        /\ LET seen == [drag EXCEPT
                           !.event = MouseEvent("mouseenter " \o target[1], target[2], 0),
                           !.dropped = None]
           IN  drag' = IF /\ drag.dragging_id.some
                          /\ (target[1] = "Item" => drag.dragging_id.v # target[2])
                       THEN [seen EXCEPT !.drop_target = Some(target)]
                       ELSE seen
        /\ UNCHANGED <<svars, bvars, xvars, table_info, llm, log, button>>

\* The handler of make_on_mouseleave.
on_mouseleave ==
    /\ LET seen == [drag EXCEPT !.event = MouseEvent("mouseleave", 0, 0),
                                !.dropped = None]
       IN  drag' = IF drag.dragging_id.some THEN [seen EXCEPT !.drop_target = None]
                   ELSE seen
    /\ UNCHANGED <<svars, bvars, xvars, table_info, llm, log, button>>

\* The handler of bind_global_mouseup, for the release of either button.
on_mouseup ==
    \E b \in MouseButtons :
        /\ b = 0 => drag.left_down
        /\ drag.timers < MaxDragTimers
        /\ LET seen == [drag EXCEPT !.event = MouseEvent("mouseup", b, 0),
                                    !.left_down = IF b = 0 THEN FALSE ELSE @,
                                    !.pending_id = None]
           IN  drag' = IF drag.dragging_id.some /\ drag.drop_target.some
                       THEN [end_drag(seen) EXCEPT
                                !.dropped = Some(<<drag.dragging_id.v, drag.drop_target.v>>)]
                       ELSE [end_drag(seen) EXCEPT !.dropped = None]
        /\ UNCHANGED <<svars, bvars, xvars, table_info, llm, log, button>>

\* The timeout of end_drag fires after 100 ms.
drag_timeout ==
    /\ drag.timers > 0
    /\ drag' = [drag EXCEPT !.drag_just_ended = FALSE, !.timers = @ - 1,
                            !.event = MouseEvent("timeout", 0, 0), !.dropped = None]
    /\ UNCHANGED <<svars, bvars, xvars, table_info, llm, log, button>>

\* ============================================================== updater
\* updater-flow: download_update and install_pending_update, called
\* concurrently on one UpdateState.  A downloaded update is named by a
\* number; lock is the call that holds the mutex of pending (0: free).

\* The calls of one behaviour and the most progress events of a download.
MaxUpdCalls == 3
MaxProgress == 1

UpdCalls == 1..MaxUpdCalls

NoUpd ==
    [pending |-> None, lock |-> 0, next_id |-> 1,
     installs |-> [d \in UpdCalls |-> 0],
     fn |-> [c \in UpdCalls |-> "none"],
     pc |-> [c \in UpdCalls |-> "idle"],
     result |-> [c \in UpdCalls |-> "none"],
     held |-> [c \in UpdCalls |-> None],
     events |-> [c \in UpdCalls |-> <<>>]]

\* download_update up to the download: updater() or check() fails, no
\* update is available, or the start event is emitted.
download_update_check ==
    \E c \in UpdCalls, found \in {"error", "none", "update"} :
        /\ upd.pc[c] = "idle"
        /\ upd' = IF found = "update"
                  THEN [upd EXCEPT !.fn[c] = "download_update", !.pc[c] = "downloading",
                            !.events[c] = Append(@, "tauri-update-download-start")]
                  ELSE [upd EXCEPT !.fn[c] = "download_update", !.pc[c] = "returned",
                            !.result[c] = IF found = "none"
                                          THEN "Err: No update available to download"
                                          ELSE "Err"]
        /\ UNCHANGED <<svars, bvars, table_info, llm, log, button, drag, xfer>>

\* The progress callback of update.download.
download_progress ==
    \E c \in UpdCalls :
        /\ upd.pc[c] = "downloading"
        /\ Len(upd.events[c]) <= MaxProgress
        /\ upd' = [upd EXCEPT !.events[c] = Append(@, "tauri-update-progress")]
        /\ UNCHANGED <<svars, bvars, table_info, llm, log, button, drag, xfer>>

\* A failing download that reports completion.
download_fails_Complete ==
    \E c \in UpdCalls :
        /\ upd.pc[c] = "downloading"
        /\ upd' = [upd EXCEPT !.pc[c] = "returned", !.result[c] = "Err",
                              !.events[c] = Append(@, "tauri-update-complete")]
        /\ UNCHANGED <<svars, bvars, table_info, llm, log, button, drag, xfer>>

\* update.download fails: the error event, then Err.
download_fails ==
    \E c \in UpdCalls :
        /\ upd.pc[c] = "downloading"
        /\ upd' = [upd EXCEPT !.pc[c] = "returned", !.result[c] = "Err",
                              !.events[c] = Append(@, "tauri-update-error")]
        /\ UNCHANGED <<svars, bvars, table_info, llm, log, button, drag, xfer>>

\* update.download succeeds: the mutex is taken and pending is set.
download_stores ==
    \E c \in UpdCalls :
        /\ upd.pc[c] = "downloading"
        /\ upd.lock = 0
        /\ upd' = [upd EXCEPT !.pc[c] = "stored", !.lock = c,
                              !.pending = Some(upd.next_id), !.next_id = @ + 1]
        /\ UNCHANGED <<svars, bvars, table_info, llm, log, button, drag, xfer>>

\* The complete event, the release of the mutex and Ok.
download_completes ==
    \E c \in UpdCalls :
        /\ upd.pc[c] = "stored"
        /\ upd' = [upd EXCEPT !.pc[c] = "returned", !.result[c] = "Ok", !.lock = 0,
                              !.events[c] = Append(@, "tauri-update-complete")]
        /\ UNCHANGED <<svars, bvars, table_info, llm, log, button, drag, xfer>>

\* install_pending_update that reads pending and leaves it in place.
install_takes_Leaves ==
    \E c \in UpdCalls :
        /\ upd.pc[c] = "idle"
        /\ upd.lock = 0
        /\ upd' = IF upd.pending.some
                  THEN [upd EXCEPT !.fn[c] = "install_pending_update",
                            !.pc[c] = "installing", !.held[c] = upd.pending]
                  ELSE [upd EXCEPT !.fn[c] = "install_pending_update",
                            !.pc[c] = "returned",
                            !.result[c] = "Err: No pending update found in memory"]
        /\ UNCHANGED <<svars, bvars, table_info, llm, log, button, drag, xfer>>

\* install_pending_update up to the installation: pending.take() under
\* the mutex; Err when nothing was pending.
install_takes ==
    \E c \in UpdCalls :
        /\ upd.pc[c] = "idle"
        /\ upd.lock = 0
        /\ upd' = IF upd.pending.some
                  THEN [upd EXCEPT !.fn[c] = "install_pending_update",
                            !.pc[c] = "installing", !.held[c] = upd.pending,
                            !.pending = None]
                  ELSE [upd EXCEPT !.fn[c] = "install_pending_update",
                            !.pc[c] = "returned",
                            !.result[c] = "Err: No pending update found in memory"]
        /\ UNCHANGED <<svars, bvars, table_info, llm, log, button, drag, xfer>>

\* update.install(bytes): it fails, or the application restarts.
install_runs ==
    \E c \in UpdCalls, ok \in BOOLEAN :
        /\ upd.pc[c] = "installing"
        /\ upd' = [upd EXCEPT !.pc[c] = "returned",
                              !.installs[upd.held[c].v] = @ + 1,
                              !.result[c] = IF ok THEN "Ok" ELSE "Err"]
        /\ UNCHANGED <<svars, bvars, table_info, llm, log, button, drag, xfer>>

\* =========================================================== DbState locks
\* The four tokio mutexes of a DbState (db, conn, is_sync_enabled,
\* sync_url) and the method calls that take them.  A DbState is named by its
\* handles: clones share them.  A lock is <<handles, field>>; owner maps a
\* lock to the task that holds it (0: free).

Handles == {"a", "b"}
Fields == {"db", "conn", "is_sync_enabled", "sync_url"}
Locks == Handles \X Fields
Tasks == {1, 2}

\* The lock operations of a method on self s (and other o), in program
\* order: "lock" takes a guard that lives to the end of the function, "touch"
\* locks and releases within one statement, "await" waits with the guards
\* held, "return" drops the guards.
Program(fn, s, o) ==
    CASE fn = "update_from" ->
            << <<"lock", <<o, "db">> >>, <<"lock", <<o, "conn">> >>,
               <<"lock", <<o, "is_sync_enabled">> >>, <<"lock", <<o, "sync_url">> >>,
               <<"touch", <<s, "db">> >>, <<"touch", <<s, "conn">> >>,
               <<"touch", <<s, "is_sync_enabled">> >>, <<"touch", <<s, "sync_url">> >>,
               <<"return", <<s, "db">> >> >>
      [] fn = "close" ->
            << <<"lock", <<s, "db">> >>, <<"lock", <<s, "conn">> >>,
               <<"return", <<s, "db">> >> >>
      [] fn = "get_connection" ->
            << <<"lock", <<s, "conn">> >>, <<"return", <<s, "conn">> >> >>
      [] fn = "is_cloud_sync_enabled" ->
            << <<"touch", <<s, "is_sync_enabled">> >>,
               <<"return", <<s, "is_sync_enabled">> >> >>
      [] fn = "sync" ->
            << <<"lock", <<s, "db">> >>, <<"await", <<s, "db">> >>,
               <<"return", <<s, "db">> >> >>
      [] OTHER -> <<>>

NoOp == [fn |-> "none", self |-> "a", other |-> "a"]

NoXfer ==
    [owner |-> [l \in Locks |-> 0],
     op |-> [p \in Tasks |-> NoOp],
     pc |-> [p \in Tasks |-> 0]]

\* The instruction task p is at.
Instr(p) == Program(xfer.op[p].fn, xfer.op[p].self, xfer.op[p].other)[xfer.pc[p]]

\* Task p is inside a call and waits for a lock that is held.
Waiting(p) ==
    /\ xfer.op[p].fn # "none"
    /\ Instr(p)[1] \in {"lock", "touch"}
    /\ xfer.owner[Instr(p)[2]] # 0

\* Task p takes its next instruction.
Step(p) ==
    /\ xfer.op[p].fn # "none"
    /\ ~Waiting(p)
    /\ xfer' =
         CASE Instr(p)[1] = "lock" ->
                 [xfer EXCEPT !.owner[Instr(p)[2]] = p, !.pc[p] = @ + 1]
           [] Instr(p)[1] \in {"touch", "await"} ->
                 [xfer EXCEPT !.pc[p] = @ + 1]
           [] OTHER ->
                 [xfer EXCEPT !.owner = [l \in Locks |-> IF @[l] = p THEN 0 ELSE @[l]],
                              !.op[p] = NoOp, !.pc[p] = 0]

\* Task p calls method fn on self s and other o.
Call(p, fn, s, o) ==
    /\ xfer.op[p].fn = "none"
    /\ xfer' = [xfer EXCEPT !.op[p] = [fn |-> fn, self |-> s, other |-> o], !.pc[p] = 1]

\* DbState::update_from(self, other): called, or its next instruction.
lock_update_from ==
    /\ \E p \in Tasks :
         \/ \E s \in Handles, o \in Handles : Call(p, "update_from", s, o)
         \/ xfer.op[p].fn = "update_from" /\ Step(p)
    /\ UNCHANGED <<svars, bvars, table_info, llm, log, button, drag, upd>>

\* DbState::close.
lock_close ==
    /\ \E p \in Tasks :
         \/ \E s \in Handles : Call(p, "close", s, s)
         \/ xfer.op[p].fn = "close" /\ Step(p)
    /\ UNCHANGED <<svars, bvars, table_info, llm, log, button, drag, upd>>

\* DbState::get_connection.
lock_get_connection ==
    /\ \E p \in Tasks :
         \/ \E s \in Handles : Call(p, "get_connection", s, s)
         \/ xfer.op[p].fn = "get_connection" /\ Step(p)
    /\ UNCHANGED <<svars, bvars, table_info, llm, log, button, drag, upd>>

\* DbState::is_cloud_sync_enabled.
lock_is_cloud_sync_enabled ==
    /\ \E p \in Tasks :
         \/ \E s \in Handles : Call(p, "is_cloud_sync_enabled", s, s)
         \/ xfer.op[p].fn = "is_cloud_sync_enabled" /\ Step(p)
    /\ UNCHANGED <<svars, bvars, table_info, llm, log, button, drag, upd>>

\* DbState::sync.
lock_sync ==
    /\ \E p \in Tasks :
         \/ \E s \in Handles : Call(p, "sync", s, s)
         \/ xfer.op[p].fn = "sync" /\ Step(p)
    /\ UNCHANGED <<svars, bvars, table_info, llm, log, button, drag, upd>>

\* ========================================================== other crates


\* The schema loader and the other crates at rest.
CratesAtRest ==
    /\ table_info = NoTableInfo
    /\ llm = NoLlm
    /\ log = NoLog
    /\ button = NoButton
    /\ drag = NoDrag
    /\ upd = NoUpd
    /\ xfer = NoXfer

\* ======================================================= the batch answer

\* An element of the array a batch is answered with: whether it has a
\* results member that is a result set, whether it has an error member, and
\* the message of the error.
Messages == {"no such table", "constraint failed"}

\* The elements the remote sends: a result set, an error with its message,
\* and an element that is neither.
Items ==
    {[results |-> r, error |-> FALSE, message |-> ""] : r \in BOOLEAN} \cup
    {[results |-> FALSE, error |-> TRUE, message |-> m] : m \in Messages}

\* The longest array in an answer.
MaxItems == 2

\* The body of an answer: a JSON array of elements, or something else.
Bodies ==
    {[array |-> FALSE, items |-> <<>>]} \cup
    {[array |-> TRUE, items |-> x] : x \in UNION {[1..k -> Items] : k \in 0..MaxItems}}

\* The answers to the request: the request failed to be sent, or it was
\* answered with a status and a body that can or cannot be read.
Statuses == {200, 401, 500}

Answers ==
    {[sent |-> FALSE, status |-> 0, readable |-> FALSE, body |-> [array |-> FALSE, items |-> <<>>]]} \cup
    {[sent |-> TRUE, status |-> st, readable |-> rd, body |-> b] :
        st \in Statuses, rd \in BOOLEAN, b \in Bodies}

\* StatusCode::is_success.
is_success(st) == st \in 200..299

\* The untagged TursoItemResponse an element deserializes to: Success when it
\* has the results member, else Error when it has the error member, else none.
ItemParses(it) == it.results \/ it.error

TursoItem(it) ==
    IF it.results THEN [variant |-> "Success", message |-> ""]
    ELSE [variant |-> "Error", message |-> it.message]

\* serde_json::from_str::<Vec<TursoItemResponse>>: fails unless the body is
\* an array whose elements all deserialize.
ParseItems(body) ==
    IF body.array /\ \A k \in 1..Len(body.items) : ItemParses(body.items[k])
    THEN Some([k \in 1..Len(body.items) |-> TursoItem(body.items[k])])
    ELSE None

BatchOk == [ok |-> TRUE, kind |-> "", index |-> 0, message |-> ""]
BatchErr(kind, i, m) == [ok |-> FALSE, kind |-> kind, index |-> i, message |-> m]

\* The indices, from 0, of the Error elements of parsed results.
ErrorIndices(results) ==
    {i \in 0..(Len(results) - 1) : results[i + 1].variant = "Error"}

Least(S) == CHOOSE i \in S : \A j \in S : i <= j

\* The loop over the parsed results: the first Error returns.
FirstError(results) ==
    IF ErrorIndices(results) = {} THEN BatchOk
    ELSE LET i == Least(ErrorIndices(results))
         IN  BatchErr("Batch statement failed", i, results[i + 1].message)

\* The result of execute_remote_batch for an answer.
execute_remote_batch(a) ==
    IF ~a.sent THEN BatchErr("HTTP request failed", 0, "")
    ELSE IF ~is_success(a.status) THEN BatchErr("Server error", a.status, "")
    ELSE IF ~a.readable THEN BatchErr("Failed to read response", 0, "")
    ELSE LET parsed == ParseItems(a.body)
         IN  IF parsed.some THEN FirstError(parsed.v) ELSE BatchOk

\* The result of fetch_remote_rows for an answer: the status is not read;
\* the first element of the parsed array decides.
fetch_remote_rows(a) ==
    IF ~a.sent THEN BatchErr("HTTP request failed", 0, "")
    ELSE IF ~a.readable THEN BatchErr("Failed to read response", 0, "")
    ELSE LET parsed == ParseItems(a.body)
         IN  IF ~parsed.some THEN BatchErr("Parse error", 0, "")
             ELSE IF parsed.v = <<>> THEN [BatchOk EXCEPT !.kind = "no rows"]
             ELSE IF parsed.v[1].variant = "Error"
                  THEN BatchErr("statement error", 0, parsed.v[1].message)
                  ELSE [BatchOk EXCEPT !.kind = "rows"]

\* The result of execute_remote_query for an answer: Ok with the results,
\* errors of statements among them.
execute_remote_query(a) ==
    IF ~a.sent THEN BatchErr("HTTP request failed", 0, "")
    ELSE IF ~is_success(a.status) THEN BatchErr("Server error", a.status, "")
    ELSE IF ~a.readable THEN BatchErr("Failed to read response", 0, "")
    ELSE IF ~ParseItems(a.body).some THEN BatchErr("Failed to parse response", 0, "")
    ELSE [BatchOk EXCEPT !.kind = "results"]

RemoteCalls == {"execute_remote_batch", "fetch_remote_rows", "execute_remote_query"}

NoAnswer ==
    [fn |-> "execute_remote_batch", answer |-> CHOOSE a \in Answers : ~a.sent,
     returned |-> FALSE, result |-> BatchOk]

\* fetch_remote_rows returns for the answer it received.
fetch_returns ==
    /\ ~http.returned
    /\ http.fn = "fetch_remote_rows"
    /\ http' = [http EXCEPT !.returned = TRUE, !.result = fetch_remote_rows(http.answer)]
    /\ UNCHANGED <<svars, cvars, fs, boot, db_state, call>>

\* execute_remote_query returns for the answer it received.
query_returns ==
    /\ ~http.returned
    /\ http.fn = "execute_remote_query"
    /\ http' = [http EXCEPT !.returned = TRUE, !.result = execute_remote_query(http.answer)]
    /\ UNCHANGED <<svars, cvars, fs, boot, db_state, call>>

\* execute_remote_batch returns for the answer it received.
batch_returns ==
    /\ ~http.returned
    /\ http.fn = "execute_remote_batch"
    /\ http' = [http EXCEPT !.returned = TRUE, !.result = execute_remote_batch(http.answer)]
    /\ UNCHANGED <<svars, cvars, fs, boot, db_state, call>>

\* ================================================================ bootstrap

\* A path: the file stem, the pieces of the extension written after the
\* stem's dot, and whether the path is valid UTF-8.
DbPaths ==
    {[stem |-> "app", ext |-> <<"db">>, utf8 |-> TRUE],
     [stem |-> "app", ext |-> <<"sqlite">>, utf8 |-> TRUE],
     [stem |-> "app", ext |-> <<"db">>, utf8 |-> FALSE]}

\* Path::to_str: None for a path that is not valid UTF-8.
to_str(p) == IF p.utf8 THEN Some(p) ELSE None

\* Path::with_extension replaces the extension of the path.
with_extension(p, e) == [p EXCEPT !.ext = e]

\* format!("{}<suffix>", file_name): the suffix is written after the whole
\* file name.
Suffixed(p, s) == [p EXCEPT !.ext = @ \o <<s>>]

conflict_path(p) == with_extension(p, <<"db", ".legacy">>)
wal_path(p) == with_extension(p, <<"db", "-wal">>)
shm_path(p) == with_extension(p, <<"db", "-shm">>)
sync_dir(p) == Suffixed(p, "-sync")

\* The side files the database engine keeps for the database file p: the
\* name of the file followed by -wal and by -shm.
Companions(p) == {Suffixed(p, "-wal"), Suffixed(p, "-shm")}

\* The files bootstrap can touch for the database path p.
Files(p) ==
    {p, conflict_path(p), wal_path(p), shm_path(p), sync_dir(p)} \cup Companions(p)

\* The sidecar sync_config.json: whether it exists, whether it parses, and
\* the url and token it holds.  A url is its scheme and the rest.
EmptyUrl == [scheme |-> "", rest |-> ""]
Urls == {EmptyUrl,
         [scheme |-> "libsql://", rest |-> "db.example"],
         [scheme |-> "http://", rest |-> "db.example"]}
Tokens == {"", "secret"}

ConfigFiles ==
    {[exists |-> FALSE, parses |-> FALSE, url |-> EmptyUrl, token |-> ""],
     [exists |-> TRUE, parses |-> FALSE, url |-> EmptyUrl, token |-> ""]} \cup
    {[exists |-> TRUE, parses |-> TRUE, url |-> u, token |-> t] :
        u \in Urls, t \in Tokens}

load_config(c) ==
    IF c.exists /\ c.parses THEN Some([url |-> c.url, token |-> c.token]) ELSE None

\* The error messages of a failed synced build, and the ones bootstrap
\* recovers from.
BuildErrors == {"Generation ID mismatch", "metadata file does not", "connection refused"}

should_recover(e) ==
    e \in {"local state is incorrect", "invalid local state",
           "server returned a conflict", "Generation ID mismatch", "mismatch",
           "metadata file does not"}

\* DbState::new().
NewDbState ==
    [db |-> None, conn |-> None, is_sync_enabled |-> FALSE, sync_url |-> EmptyUrl]

IdleBoot(p, c) ==
    [pc |-> "idle", db_path |-> p, config_file |-> c, validation |-> "none",
     builds |-> <<>>, rename |-> "none", db |-> None, conn |-> None,
     is_cloud_sync |-> FALSE, sync_url |-> EmptyUrl, foreign_keys |-> FALSE,
     migrated |-> FALSE, state |-> NewDbState, error |-> ""]

NoCall == [op |-> "none", ok |-> FALSE, msg |-> "", conn |-> None]

\* The specifications of the sync engine leave the bootstrap at rest.
BootAtRest ==
    /\ fs = [f \in {} |-> ""]
    /\ boot = IdleBoot(CHOOSE p \in DbPaths : p.utf8 /\ p.ext = <<"db">>,
                       CHOOSE c \in ConfigFiles : ~c.exists)
    /\ db_state = NewDbState
    /\ call = NoCall
    /\ http = NoAnswer
    /\ CratesAtRest

\* init_db up to the choice of the mode.
init_db_call ==
    /\ boot.pc = "idle"
    /\ IF ~to_str(boot.db_path).some
       THEN boot' = [boot EXCEPT !.pc = "err", !.error = "Invalid DB path"]
       ELSE LET config == load_config(boot.config_file) IN
            IF config.some /\ config.v.url # EmptyUrl /\ config.v.token # ""
            THEN boot' = [boot EXCEPT !.pc = "validate"]
            ELSE boot' = [boot EXCEPT !.pc = "local"]
    /\ UNCHANGED <<svars, cvars, http, fs, db_state, call>>

\* validate_cloud_connection with a failed validation returned to the caller.
validate_cloud_connection_Propagates(ok) ==
    /\ boot.pc = "validate"
    /\ ok => boot.config_file.url.scheme \in {"libsql://", "https://"}
    /\ boot' = IF ok
               THEN [boot EXCEPT !.pc = "build", !.validation = "ok"]
               ELSE [boot EXCEPT !.pc = "err", !.validation = "err",
                                 !.error = "Cloud connection validation failed"]
    /\ UNCHANGED <<svars, cvars, http, fs, db_state, call>>

\* validate_cloud_connection and the branch on its result.
validate_cloud_connection(ok) ==
    /\ boot.pc = "validate"
    /\ ok => boot.config_file.url.scheme \in {"libsql://", "https://"}
    /\ boot' = IF ok
               THEN [boot EXCEPT !.pc = "build", !.validation = "ok"]
               ELSE [boot EXCEPT !.pc = "local", !.validation = "err"]
    /\ UNCHANGED <<svars, cvars, http, fs, db_state, call>>

\* A build creates the database file when there is none.
Built(files, p) == IF files[p] = "" THEN [files EXCEPT ![p] = "fresh"] ELSE files

\* The position after a failed first attempt of try_build_connect.
AfterFirstFailure(e) == IF should_recover(e) THEN "remove_backup" ELSE "local"

\* try_build_connect, with result r, and the match on its result: the first
\* attempt and the retry.
try_build_connect(r) ==
    /\ boot.pc \in {"build", "retry"}
    /\ r \in {"ok"} \cup BuildErrors
    /\ IF r = "ok"
       THEN /\ boot' = [boot EXCEPT !.pc = "pragma", !.builds = Append(@, r),
                                    !.db = Some("synced"), !.conn = Some("synced"),
                                    !.is_cloud_sync = TRUE,
                                    !.sync_url = boot.config_file.url]
            /\ fs' = Built(fs, boot.db_path)
       ELSE /\ boot' = [boot EXCEPT !.builds = Append(@, r),
                                    !.pc = IF boot.pc = "build"
                                           THEN AfterFirstFailure(r) ELSE "local"]
            /\ fs' = fs
    /\ UNCHANGED <<svars, cvars, http, db_state, call>>

\* The old legacy backup is removed if it exists.
remove_legacy_backup ==
    /\ boot.pc = "remove_backup"
    /\ fs' = [fs EXCEPT ![conflict_path(boot.db_path)] = ""]
    /\ boot' = [boot EXCEPT !.pc = "rename"]
    /\ UNCHANGED <<svars, cvars, http, db_state, call>>

\* The database file is renamed to the legacy backup; when the rename fails
\* the file is removed instead.
rename_to_legacy(ok) ==
    /\ boot.pc = "rename"
    /\ ok => fs[boot.db_path] # ""
    /\ fs' = IF ok
             THEN [fs EXCEPT ![conflict_path(boot.db_path)] = fs[boot.db_path],
                             ![boot.db_path] = ""]
             ELSE [fs EXCEPT ![boot.db_path] = ""]
    /\ boot' = [boot EXCEPT !.pc = "remove_wal_shm",
                            !.rename = IF ok THEN "ok" ELSE "err"]
    /\ UNCHANGED <<svars, cvars, http, db_state, call>>

remove_wal_shm ==
    /\ boot.pc = "remove_wal_shm"
    /\ fs' = [fs EXCEPT ![wal_path(boot.db_path)] = "",
                        ![shm_path(boot.db_path)] = ""]
    /\ boot' = [boot EXCEPT !.pc = "remove_sync_dir"]
    /\ UNCHANGED <<svars, cvars, http, db_state, call>>

remove_sync_dir ==
    /\ boot.pc = "remove_sync_dir"
    /\ fs' = [fs EXCEPT ![sync_dir(boot.db_path)] = ""]
    /\ boot' = [boot EXCEPT !.pc = "retry"]
    /\ UNCHANGED <<svars, cvars, http, db_state, call>>

\* init_local_db_connection reporting the configured url and cloud mode.
init_local_db_connection_KeepsUrl(ok) ==
    /\ boot.pc = "local"
    /\ IF ok
       THEN /\ boot' = [boot EXCEPT !.pc = "pragma",
                                    !.db = Some("local"), !.conn = Some("local"),
                                    !.is_cloud_sync = boot.config_file.url # EmptyUrl,
                                    !.sync_url = boot.config_file.url]
            /\ fs' = Built(fs, boot.db_path)
       ELSE /\ boot' = [boot EXCEPT !.pc = "err", !.error = "Failed to build local db"]
            /\ fs' = fs
    /\ UNCHANGED <<svars, cvars, http, db_state, call>>

\* init_local_db_connection, reached directly or as the fallback.
init_local_db_connection(ok) ==
    /\ boot.pc = "local"
    /\ IF ok
       THEN /\ boot' = [boot EXCEPT !.pc = "pragma",
                                    !.db = Some("local"), !.conn = Some("local"),
                                    !.is_cloud_sync = FALSE, !.sync_url = EmptyUrl]
            /\ fs' = Built(fs, boot.db_path)
       ELSE /\ boot' = [boot EXCEPT !.pc = "err", !.error = "Failed to build local db"]
            /\ fs' = fs
    /\ UNCHANGED <<svars, cvars, http, db_state, call>>

\* PRAGMA foreign_keys = ON on the connection.
enable_foreign_keys(ok) ==
    /\ boot.pc = "pragma"
    /\ boot' = IF ok
               THEN [boot EXCEPT !.pc = "migrate", !.foreign_keys = TRUE]
               ELSE [boot EXCEPT !.pc = "err", !.error = "Failed to enable foreign keys"]
    /\ UNCHANGED <<svars, cvars, http, fs, db_state, call>>

\* The DbState init_db builds from its locals.
BuiltState(b) ==
    [db |-> b.db, conn |-> b.conn,
     is_sync_enabled |-> b.is_cloud_sync, sync_url |-> b.sync_url]

\* run_migrations with the DbState returned whatever the migration did.
run_migrations_Ignored(ok) ==
    /\ boot.pc = "migrate"
    /\ boot' = [boot EXCEPT !.pc = "ok", !.migrated = ok,
                            !.state = BuiltState(boot)]
    /\ UNCHANGED <<svars, cvars, http, fs, db_state, call>>

\* migrations_fn on the connection, and the return of init_db.
run_migrations(ok) ==
    /\ boot.pc = "migrate"
    /\ boot' = IF ok
               THEN [boot EXCEPT !.pc = "ok", !.migrated = TRUE,
                                 !.state = BuiltState(boot)]
               ELSE [boot EXCEPT !.pc = "err", !.error = "migration failed"]
    /\ UNCHANGED <<svars, cvars, http, fs, db_state, call>>

\* DbState::update_from, with the DbState init_db returned.
update_from ==
    /\ boot.pc = "ok"
    /\ db_state' = boot.state
    /\ UNCHANGED <<svars, cvars, http, fs, boot, call>>

\* close that also switches the cloud-sync flag off.
close_ResetsFlag ==
    /\ db_state' = [db_state EXCEPT !.conn = None, !.db = None,
                                    !.is_sync_enabled = FALSE]
    /\ call' = [NoCall EXCEPT !.op = "close", !.ok = TRUE]
    /\ UNCHANGED <<svars, cvars, http, fs, boot>>

\* close releasing the connection and keeping the database handle.
close_KeepsDb ==
    /\ db_state' = [db_state EXCEPT !.conn = None]
    /\ call' = [NoCall EXCEPT !.op = "close", !.ok = TRUE]
    /\ UNCHANGED <<svars, cvars, http, fs, boot>>

\* DbState::close.
close ==
    /\ db_state' = [db_state EXCEPT !.conn = None, !.db = None]
    /\ call' = [NoCall EXCEPT !.op = "close", !.ok = TRUE]
    /\ UNCHANGED <<svars, cvars, http, fs, boot>>

\* DbState::is_cloud_sync_enabled: ok carries the value returned.
is_cloud_sync_enabled ==
    /\ call' = [NoCall EXCEPT !.op = "is_cloud_sync_enabled",
                              !.ok = db_state.is_sync_enabled]
    /\ UNCHANGED <<svars, cvars, http, fs, boot, db_state>>

\* DbState::get_connection.
get_connection ==
    /\ call' = IF db_state.conn.some
               THEN [NoCall EXCEPT !.op = "get_connection", !.ok = TRUE,
                                   !.conn = db_state.conn]
               ELSE [NoCall EXCEPT !.op = "get_connection",
                                   !.msg = "Database not initialized"]
    /\ UNCHANGED <<svars, cvars, http, fs, boot, db_state>>

\* DbState::sync; db.sync() succeeds or fails.  Without a database handle the
\* error is the message, in Chinese, that the database is not initialized.
sync(ok) ==
    /\ call' = IF db_state.db.some
               THEN IF ok
                    THEN [NoCall EXCEPT !.op = "sync", !.ok = TRUE]
                    ELSE [NoCall EXCEPT !.op = "sync", !.msg = "sync failed"]
               ELSE [NoCall EXCEPT !.op = "sync", !.msg = "database not initialized"]
    /\ ok => db_state.db.some
    /\ UNCHANGED <<svars, cvars, http, fs, boot, db_state>>

\* ----------------------------------------------------------- specification

Init ==
    /\ clock = 0
    /\ schema = <<"notes">>
    /\ local = [t \in AllTables |-> {}]
    /\ remote = [t \in AllTables |-> {}]
    /\ sync_status = {}
    /\ BootAtRest
    /\ inv = [i \in Invs |-> IdleInv]
    /\ task = [id \in Invs \X AllTables |-> IdleTask]

\* The steps of sync_all and of its tasks.
SyncNext ==
    \/ \E i \in DOMAIN inv : sync_all_call(i)
    \/ \E i \in DOMAIN inv : \E k \in AlterKeys : alter_column(i, k)
    \/ \E i \in DOMAIN inv : sync_all_spawn(i)
    \/ \E i \in DOMAIN inv : sync_all_join(i)
    \/ \E i \in DOMAIN inv : sync_all_return(i)
    \/ \E id \in TaskIds : capture_now(id)
    \/ \E id \in TaskIds : take_conn_guard(id)
    \/ \E id \in TaskIds : read_watermark(id)
    \/ \E id \in TaskIds : push_read(id)
    \/ \E id \in TaskIds : push_send_ok(id)
    \/ \E id \in TaskIds : push_send_err(id)
    \/ \E id \in TaskIds : push_send_unparsed(id)
    \/ \E id \in TaskIds : pull_fetch(id)
    \/ \E id \in TaskIds : pull_apply(id)
    \/ \E id \in TaskIds : update_sync_status(id)
    \/ \E id \in TaskIds : step_fails(id)

Next ==
    \/ SyncNext
    \/ Tick
    \/ \E t \in AllTables : LocalWrite(t)
    \/ \E t \in AllTables, n \in 1..MaxTime : OtherPush(t, n)

\* Two invocations of sync_all, free to overlap, on a schema of one table,
\* with the application and the other replicas writing at any time.
Spec == Init /\ [][Next]_vars

\* --------------------------------------------------- repeated invocation

\* The tables a replica can hold before its first sync: nothing, or one row
\* the application wrote at or before time n.
WrittenTables(t, n) == {{}} \cup {{RowOf(t, AppText, m)} : m \in 0..n}

\* The remote tables other replicas can have produced.
PushedTables(t) == {{}} \cup {{RowOf(t, OtherText, m)} : m \in 1..MaxTime}

InitTwice ==
    /\ clock \in 0..MaxTime
    /\ schema \in {<<"notes">>, <<"tags">>}
    /\ local \in {[t \in AllTables |-> IF InSchema(t) THEN x ELSE {}] :
                    x \in WrittenTables(schema[1], clock)}
    /\ remote \in {[t \in AllTables |-> IF InSchema(t) THEN x ELSE {}] :
                    x \in PushedTables(schema[1])}
    /\ sync_status = {}
    /\ BootAtRest
    /\ inv = [i \in {1} |-> IdleInv]
    /\ task = [id \in {1} \X AllTables |-> IdleTask]

NextTwice ==
    \/ SyncNext
    \/ \E i \in DOMAIN inv : sync_all_again(i)
    \/ Tick

\* One caller that invokes sync_all, and again once it has returned Ok, on
\* a replica whose rows were written before the first call: nothing is
\* written locally or remotely from the first call on.
SpecTwice == InitTwice /\ [][NextTwice]_vars

\* ------------------------------------------------------ several tables

InitAll ==
    /\ clock = 1
    /\ schema = <<"notes", "tags", "links">>
    /\ local \in [AllTables -> {{}}] \cup
                 {[t \in AllTables |-> IF t = u THEN {RowOf(t, AppText, 1)} ELSE {}] :
                    u \in AllTables}
    /\ remote \in [AllTables -> {{}}] \cup
                  {[t \in AllTables |-> IF t = u THEN {RowOf(t, OtherText, 1)} ELSE {}] :
                    u \in AllTables}
    /\ sync_status = {}
    /\ BootAtRest
    /\ inv = [i \in {1} |-> IdleInv]
    /\ task = [id \in {1} \X AllTables |-> IdleTask]

\* One invocation of sync_all on a schema of three tables.
SpecAll == InitAll /\ [][SyncNext]_vars

\* ------------------------------------------------------ the pull alone

\* The cells a fetched primary-key column can hold: NULL, the empty string,
\* a value.
KeyCells == {None, Some(<<>>), Some(<<1>>)}

\* The cells the fetched key column of a single-key table can hold: the same,
\* and a second value.
IdCells == KeyCells \cup {Some(<<2>>)}

\* The times stamped on the rows of SpecPull.
PullTimes == {1, 2, 10}

\* The rows fetch_remote_rows can return for table t: full rows, and rows
\* that end before the last column.
FullRows(t) ==
    IF t = "links"
    THEN {<<a, b, Some(Encode(updated_at_type(t), n))>> :
            a \in KeyCells, b \in KeyCells, n \in PullTimes}
    ELSE {<<a, Some(OtherText), Some(Encode(updated_at_type(t), n))>> :
            a \in IdCells, n \in PullTimes}

FetchedRows(t) ==
    FullRows(t) \cup {SubSeq(r, 1, k) : r \in FullRows(t), k \in 1..2}

\* The sequences of at most n elements of S.
SeqsUpTo(S, n) == UNION {[1..k -> S] : k \in 0..n}

\* The local tables of SpecPull: empty, or the one row of key 1 (of key
\* (1, 1) in links).
StoredRow(t, n) ==
    IF t = "links"
    THEN <<Some(<<1>>), Some(<<1>>), Some(Encode(updated_at_type(t), n))>>
    ELSE <<Some(<<1>>), Some(AppText), Some(Encode(updated_at_type(t), n))>>

StoredTables(t) == {{}} \cup {{StoredRow(t, n)} : n \in PullTimes}

\* The remote table keeps its primary key unique: two fetched rows have the
\* same key values only if one of the values is NULL.
UniqueKeys(t, rows) ==
    \A j, k \in 1..Len(rows) :
        (j < k /\ PkOf(t, rows[j]) = PkOf(t, rows[k]))
            => \E c \in 1..Len(get_pks(t)) : ~PkOf(t, rows[j])[c].some

InitPull ==
    /\ clock = 0
    /\ schema \in {<<t>> : t \in AllTables}
    /\ local \in {[t \in AllTables |-> IF InSchema(t) THEN x ELSE {}] :
                    x \in StoredTables(schema[1])}
    /\ sync_status = {}
    /\ BootAtRest
    /\ inv = [i \in {1} |-> [IdleInv EXCEPT !.pc = "join", !.round = 1]]
    /\ \E rows \in SeqsUpTo(FetchedRows(schema[1]), MaxRows) \ {<<>>} :
         /\ UniqueKeys(schema[1], rows)
         /\ remote = [t \in AllTables |->
                        IF InSchema(t) THEN {rows[k] : k \in 1..Len(rows)} ELSE {}]
         /\ task = [id \in {1} \X AllTables |->
                      IF InSchema(id[2])
                      THEN [IdleTask EXCEPT
                              !.pc = "pull_apply",
                              !.now = Encode(updated_at_type(id[2]), 0),
                              !.last_sync_time = DefaultWatermark(id[2]),
                              !.rows = rows]
                      ELSE IdleTask]

NextPull ==
    \/ \E id \in TaskIds : take_conn_guard(id)
    \/ \E id \in TaskIds : pull_apply(id)

\* pull_changes from the point where the rows have been fetched, for every
\* short sequence of fetched rows and every small local table.
SpecPull == InitPull /\ [][NextPull]_vars

\* ------------------------------------------------- a legacy watermark

\* The watermarks an earlier version can have left in sync_status for the
\* integer-typed table notes: the local date-time text of an instant, or a
\* text that is neither a number nor a date-time.
LegacyWatermarks == {FormatDateTime(LocalDateTime(m)) : m \in 0..MaxTime} \cup {AppText}

InitLegacy ==
    /\ clock \in 1..MaxTime
    /\ schema = <<"notes">>
    /\ local \in {[t \in AllTables |-> IF InSchema(t) THEN x ELSE {}] :
                    x \in WrittenTables(schema[1], clock)}
    /\ remote \in {[t \in AllTables |-> IF InSchema(t) THEN x ELSE {}] :
                    x \in PushedTables(schema[1])}
    /\ sync_status \in {{[table_name |-> "notes", last_sync_time |-> w,
                           last_sync_direction |-> "both", sync_count |-> 1]} :
                          w \in LegacyWatermarks}
    /\ BootAtRest
    /\ inv = [i \in {1} |-> IdleInv]
    /\ task = [id \in {1} \X AllTables |-> IdleTask]

NextLegacy ==
    \/ SyncNext
    \/ Tick

\* One invocation of sync_all on a replica whose ledger row of an
\* integer-typed table holds a legacy text watermark.
SpecLegacy == InitLegacy /\ [][NextLegacy]_vars

\* ------------------------------------------------------ the bootstrap

\* The files that can lie next to the database path p before init_db runs:
\* the database file, an earlier legacy backup, the side files of the
\* database and the sync directory, each present or absent.
InitialFiles(p) ==
    {[f \in Files(p) |->
        IF f = p THEN d
        ELSE IF f = conflict_path(p) THEN b
        ELSE IF f \in Companions(p) THEN j
        ELSE IF f = sync_dir(p) THEN m
        ELSE ""] :
     d \in {"", "replica"}, b \in {"", "backup"},
     j \in {"", "journal"}, m \in {"", "metadata"}}

InitBoot ==
    /\ clock = 0
    /\ schema = <<"notes">>
    /\ local = [t \in AllTables |-> {}]
    /\ remote = [t \in AllTables |-> {}]
    /\ sync_status = {}
    /\ inv = [i \in {1} |-> IdleInv]
    /\ task = [id \in {1} \X AllTables |-> IdleTask]
    /\ \E p \in DbPaths, c \in ConfigFiles :
         /\ boot = IdleBoot(p, c)
         /\ fs \in InitialFiles(p)
    /\ db_state = NewDbState
    /\ call = NoCall
    /\ http = NoAnswer
    /\ CratesAtRest

NextBoot ==
    \/ init_db_call
    \/ \E ok \in BOOLEAN : validate_cloud_connection(ok)
    \/ \E r \in {"ok"} \cup BuildErrors : try_build_connect(r)
    \/ remove_legacy_backup
    \/ \E ok \in BOOLEAN : rename_to_legacy(ok)
    \/ remove_wal_shm
    \/ remove_sync_dir
    \/ \E ok \in BOOLEAN : init_local_db_connection(ok)
    \/ \E ok \in BOOLEAN : enable_foreign_keys(ok)
    \/ \E ok \in BOOLEAN : run_migrations(ok)
    \/ update_from
    \/ close
    \/ get_connection
    \/ is_cloud_sync_enabled
    \/ \E ok \in BOOLEAN : sync(ok)

\* One call of init_db, for every database path, sidecar configuration and
\* set of files, with the application calling the methods of its DbState at
\* any time.
SpecBoot == InitBoot /\ [][NextBoot]_vars

\* ---------------------------------------------------- the batch answer

InitBatch ==
    /\ clock = 0
    /\ schema = <<"notes">>
    /\ local = [t \in AllTables |-> {}]
    /\ remote = [t \in AllTables |-> {}]
    /\ sync_status = {}
    /\ inv = [i \in {1} |-> IdleInv]
    /\ task = [id \in {1} \X AllTables |-> IdleTask]
    /\ fs = [f \in {} |-> ""]
    /\ boot = IdleBoot(CHOOSE p \in DbPaths : p.utf8 /\ p.ext = <<"db">>,
                       CHOOSE c \in ConfigFiles : ~c.exists)
    /\ db_state = NewDbState
    /\ call = NoCall
    /\ CratesAtRest
    /\ http \in {[fn |-> "execute_remote_batch", answer |-> a,
                   returned |-> FALSE, result |-> BatchOk] : a \in Answers}

\* execute_remote_batch on every answer.
SpecBatch == InitBatch /\ [][batch_returns]_vars

InitRemote ==
    /\ clock = 0
    /\ schema = <<"notes">>
    /\ local = [t \in AllTables |-> {}]
    /\ remote = [t \in AllTables |-> {}]
    /\ sync_status = {}
    /\ inv = [i \in {1} |-> IdleInv]
    /\ task = [id \in {1} \X AllTables |-> IdleTask]
    /\ fs = [f \in {} |-> ""]
    /\ boot = IdleBoot(CHOOSE p \in DbPaths : p.utf8 /\ p.ext = <<"db">>,
                       CHOOSE c \in ConfigFiles : ~c.exists)
    /\ db_state = NewDbState
    /\ call = NoCall
    /\ CratesAtRest
    /\ http \in {[fn |-> f, answer |-> a, returned |-> FALSE, result |-> BatchOk] :
                   f \in RemoteCalls, a \in Answers}

NextRemote ==
    \/ batch_returns
    \/ fetch_returns
    \/ query_returns

\* Each of the three remote calls on every answer.
SpecRemote == InitRemote /\ [][NextRemote]_vars

\* ------------------------------------------- a table without updated_at

\* The rows of the table plain before the call: none, or one.
PlainRows == {{}, {<<Some(<<1>>), Some(AppText)>>}}

InitPlain ==
    /\ clock = 1
    /\ schema \in {<<"notes", "plain">>, <<"plain", "notes">>, <<"plain">>}
    /\ \E x \in WrittenTables("notes", 1), y \in PlainRows :
         local = [t \in AllTables \cup PlainTables |->
                    IF t = "notes" /\ InSchema(t) THEN x
                    ELSE IF t \in PlainTables THEN y ELSE {}]
    /\ \E y \in PlainRows :
         remote = [t \in AllTables \cup PlainTables |-> IF t \in PlainTables THEN y ELSE {}]
    /\ sync_status = {}
    /\ BootAtRest
    /\ inv = [i \in {1} |-> IdleInv]
    /\ task = [id \in {1} \X (AllTables \cup PlainTables) |-> IdleTask]

\* One invocation of sync_all on a schema that lists a table without an
\* updated_at column.
SpecPlain == InitPlain /\ [][SyncNext]_vars

\* ------------------------------------------------ a write during a cycle

\* The text of a row the application writes while a cycle is running.
RaceText == <<13>>

\* The application writes a row of table t, stamped with the clock, while
\* the first cycle of t is past its push select and has not ended.
RacingWrite(t) ==
    /\ InSchema(t)
    /\ \E i \in DOMAIN inv :
         /\ inv[i].round = 1
         /\ task[<<i, t>>].pc \in {"push_send", "pull_fetch", "pull_apply", "ledger"}
    /\ local' = [local EXCEPT ![t] = InsertOrReplace(t, @, RowOf(t, RaceText, clock))]
    /\ UNCHANGED <<bvars, cvars, clock, schema, remote, sync_status, inv, task>>

NextRace ==
    \/ SyncNext
    \/ \E i \in DOMAIN inv : sync_all_again(i)
    \/ Tick
    \/ \E t \in AllTables : RacingWrite(t)

\* One caller that invokes sync_all twice, with the application writing
\* during the first cycle after its push select.
SpecRace == InitTwice /\ [][NextRace]_vars

\* ------------------------------------------- a late push between cycles

\* Another replica pushes a row after the caller's first sync_all returned Ok
\* and before the caller invokes it again.  The row carries the time of the
\* other replica's write, which may lie before the first cycle.
OtherPushBetween(t, n) ==
    /\ \E i \in DOMAIN inv :
         /\ inv[i].pc = "returned"
         /\ inv[i].result = "ok"
         /\ inv[i].round = 1
    /\ OtherPush(t, n)

NextLate ==
    \/ SyncNext
    \/ \E i \in DOMAIN inv : sync_all_again(i)
    \/ Tick
    \/ \E t \in AllTables, n \in 1..MaxTime : OtherPushBetween(t, n)

\* One caller that invokes sync_all twice, with other replicas pushing
\* between the two calls and nothing written from the second call on.
SpecLate == InitTwice /\ [][NextLate]_vars

\* ------------------------------------------------------ the schema loader

InitLoad ==
    /\ clock = 0
    /\ schema = <<"notes">>
    /\ local = [t \in AllTables |-> {}]
    /\ remote = [t \in AllTables |-> {}]
    /\ sync_status = {}
    /\ inv = [i \in {1} |-> IdleInv]
    /\ task = [id \in {1} \X AllTables |-> IdleTask]
    /\ fs = [f \in {} |-> ""]
    /\ boot = IdleBoot(CHOOSE p \in DbPaths : p.utf8 /\ p.ext = <<"db">>,
                       CHOOSE c \in ConfigFiles : ~c.exists)
    /\ db_state = NewDbState
    /\ call = NoCall
    /\ http = NoAnswer
    /\ table_info \in {[NoTableInfo EXCEPT !.rows = r] : r \in PragmaRows}
    /\ llm = NoLlm
    /\ log = NoLog
    /\ button = NoButton
    /\ drag = NoDrag
    /\ upd = NoUpd
    /\ xfer = NoXfer

\* DynamicSchema::load on every small table.
SpecLoad == InitLoad /\ [][load]_vars

\* ------------------------------------------------------- tag suggestion

InitTags ==
    /\ clock = 0
    /\ schema = <<"notes">>
    /\ local = [t \in AllTables |-> {}]
    /\ remote = [t \in AllTables |-> {}]
    /\ sync_status = {}
    /\ inv = [i \in {1} |-> IdleInv]
    /\ task = [id \in {1} \X AllTables |-> IdleTask]
    /\ fs = [f \in {} |-> ""]
    /\ boot = IdleBoot(CHOOSE p \in DbPaths : p.utf8 /\ p.ext = <<"db">>,
                       CHOOSE c \in ConfigFiles : ~c.exists)
    /\ db_state = NewDbState
    /\ call = NoCall
    /\ http = NoAnswer
    /\ table_info = NoTableInfo
    /\ llm \in LlmCalls
    /\ log = NoLog
    /\ button = NoButton
    /\ drag = NoDrag
    /\ upd = NoUpd
    /\ xfer = NoXfer

\* One call of either helper on every small input.
SpecTags == InitTags /\ [][generate_tags_llm \/ generate_image_tags_llm]_vars

\* ---------------------------------------------------------- rolling log

\* An app.log left by an earlier run: a string of at most MAX_LOG_SIZE bytes.
InitLog ==
    /\ clock = 0
    /\ schema = <<"notes">>
    /\ local = [t \in AllTables |-> {}]
    /\ remote = [t \in AllTables |-> {}]
    /\ sync_status = {}
    /\ inv = [i \in {1} |-> IdleInv]
    /\ task = [id \in {1} \X AllTables |-> IdleTask]
    /\ fs = [f \in {} |-> ""]
    /\ boot = IdleBoot(CHOOSE p \in DbPaths : p.utf8 /\ p.ext = <<"db">>,
                       CHOOSE c \in ConfigFiles : ~c.exists)
    /\ db_state = NewDbState
    /\ call = NoCall
    /\ http = NoAnswer
    /\ table_info = NoTableInfo
    /\ llm = NoLlm
    /\ log \in {[NoLog EXCEPT !.file = as_bytes(e, FALSE)] : e \in StringsUpTo(MAX_LOG_SIZE)}
    /\ button = NoButton
    /\ drag = NoDrag
    /\ upd = NoUpd
    /\ xfer = NoXfer

NextLog == new \/ write \/ read_logs

SpecLog == InitLog /\ [][NextLog]_vars

\* ---------------------------------------------------------- sync button

InitButton ==
    /\ clock = 0
    /\ schema = <<"notes">>
    /\ local = [t \in AllTables |-> {}]
    /\ remote = [t \in AllTables |-> {}]
    /\ sync_status = {}
    /\ inv = [i \in {1} |-> IdleInv]
    /\ task = [id \in {1} \X AllTables |-> IdleTask]
    /\ fs = [f \in {} |-> ""]
    /\ boot = IdleBoot(CHOOSE p \in DbPaths : p.utf8 /\ p.ext = <<"db">>,
                       CHOOSE c \in ConfigFiles : ~c.exists)
    /\ db_state = NewDbState
    /\ call = NoCall
    /\ http = NoAnswer
    /\ table_info = NoTableInfo
    /\ llm = NoLlm
    /\ log = NoLog
    /\ button = NoButton
    /\ drag = NoDrag
    /\ upd = NoUpd
    /\ xfer = NoXfer

NextButton == do_sync \/ manual_sync_returns \/ timeout_fires

SpecButton == InitButton /\ [][NextButton]_vars

\* -------------------------------------------------------- drag and drop

InitDrag ==
    /\ clock = 0
    /\ schema = <<"notes">>
    /\ local = [t \in AllTables |-> {}]
    /\ remote = [t \in AllTables |-> {}]
    /\ sync_status = {}
    /\ inv = [i \in {1} |-> IdleInv]
    /\ task = [id \in {1} \X AllTables |-> IdleTask]
    /\ fs = [f \in {} |-> ""]
    /\ boot = IdleBoot(CHOOSE p \in DbPaths : p.utf8 /\ p.ext = <<"db">>,
                       CHOOSE c \in ConfigFiles : ~c.exists)
    /\ db_state = NewDbState
    /\ call = NoCall
    /\ http = NoAnswer
    /\ table_info = NoTableInfo
    /\ llm = NoLlm
    /\ log = NoLog
    /\ button = NoButton
    /\ drag = NoDrag
    /\ upd = NoUpd
    /\ xfer = NoXfer

NextDrag ==
    \/ on_mousedown
    \/ on_mousemove
    \/ on_mouseenter
    \/ on_mouseleave
    \/ on_mouseup
    \/ drag_timeout

SpecDrag == InitDrag /\ [][NextDrag]_vars

\* -------------------------------------------------------------- updater

InitUpd ==
    /\ clock = 0
    /\ schema = <<"notes">>
    /\ local = [t \in AllTables |-> {}]
    /\ remote = [t \in AllTables |-> {}]
    /\ sync_status = {}
    /\ inv = [i \in {1} |-> IdleInv]
    /\ task = [id \in {1} \X AllTables |-> IdleTask]
    /\ BootAtRest

NextUpd ==
    \/ download_update_check
    \/ download_progress
    \/ download_fails
    \/ download_stores
    \/ download_completes
    \/ install_takes
    \/ install_runs

SpecUpd == InitUpd /\ [][NextUpd]_vars

\* -------------------------------------------------------- DbState locks

InitXfer ==
    /\ clock = 0
    /\ schema = <<"notes">>
    /\ local = [t \in AllTables |-> {}]
    /\ remote = [t \in AllTables |-> {}]
    /\ sync_status = {}
    /\ inv = [i \in {1} |-> IdleInv]
    /\ task = [id \in {1} \X AllTables |-> IdleTask]
    /\ BootAtRest

NextXfer ==
    \/ lock_update_from
    \/ lock_close
    \/ lock_get_connection
    \/ lock_is_cloud_sync_enabled
    \/ lock_sync

SpecXfer == InitXfer /\ [][NextXfer]_vars

\* ================================================================== claims

\* a > b as values of the type of t's updated_at column.
Later(t, a, b) == SqlGreater(updated_at_type(t), Some(a), b)

LedgerRows(t, ledger) == {r \in ledger : r.table_name = t}

\* C1: the last_sync_time stored for a table never decreases, whatever cycles
\* run and however they overlap.
C1_WatermarkNeverDecreases ==
    [][\A t \in AllTables : \A r \in LedgerRows(t, sync_status) :
          \A q \in LedgerRows(t, sync_status') :
              ~Later(t, r.last_sync_time, q.last_sync_time)]_vars

\* C2 as stated: a second invocation, made after the first returned Ok with
\* nothing written since, selects no row to push, fetches no row to pull and
\* leaves the stored watermark as it was.
C2_SecondCycleChangesNothing ==
    \A i \in DOMAIN inv : inv[i].round = 2 =>
        \A t \in AllTables : InSchema(t) =>
            /\ task[<<i, t>>].rows = <<>>
            /\ inv[i].pc = "returned" =>
                 StoredWatermark(t, sync_status, DefaultWatermark(t))
                     = StoredWatermark(t, inv[i].before, DefaultWatermark(t))

\* C2 amended: a second invocation, made after the first returned Ok with
\* nothing written since the first was called, selects to push and fetches to
\* pull only rows stamped later than the watermark the first stored, so none
\* when no stored row is stamped later than it; when it returns Ok the
\* stored watermark is the now it captured.
C2_SecondCycleMovesNothing ==
    \A i \in DOMAIN inv : inv[i].round = 2 =>
        \A t \in AllTables : InSchema(t) =>
            /\ \A k \in 1..Len(task[<<i, t>>].rows) :
                  SqlGreater(updated_at_type(t), UpdatedAtOf(t, task[<<i, t>>].rows[k]),
                             StoredWatermark(t, inv[i].before, DefaultWatermark(t)))
            /\ ~inv[i].late => task[<<i, t>>].rows = <<>>
            /\ (inv[i].pc = "returned" /\ inv[i].result = "ok") =>
                 /\ LedgerRows(t, sync_status) # {}
                 /\ \A r \in LedgerRows(t, sync_status) :
                        r.last_sync_time = task[<<i, t>>].now

\* A second invocation has returned Ok on a replica whose row is on both
\* sides; it moved nothing, and the stored watermark is no longer the one it
\* found.
C2_Witness ==
    \E i \in DOMAIN inv : \E t \in AllTables :
        /\ InSchema(t)
        /\ inv[i].round = 2 /\ ~inv[i].late
        /\ inv[i].pc = "returned" /\ inv[i].result = "ok"
        /\ local[t] # {} /\ remote[t] = local[t]
        /\ StoredWatermark(t, sync_status, DefaultWatermark(t))
               # StoredWatermark(t, inv[i].before, DefaultWatermark(t))

\* Every primary-key column of the row holds a non-empty value.
HasAllKeys(t, row) ==
    \A k \in 1..Len(get_pks(t)) :
        LET c == ColIndex(get_columns(t), get_pks(t)[k])
        IN  c >= 1 /\ c <= Len(row) /\ row[c].some /\ row[c].v # <<>>

\* The fetched row is older, by the type of updated_at, than the local row of
\* the same primary key.
OlderThanLocal(t, tbl, row) ==
    /\ HasAllKeys(t, row)
    /\ UpdatedAtOf(t, row).some
    /\ \E l \in tbl :
          /\ PkOf(t, l) = PkOf(t, row)
          /\ UpdatedAtOf(t, l).some
          /\ Later(t, UpdatedAtOf(t, l).v, UpdatedAtOf(t, row).v)

\* C3: when pull receives a row whose updated_at is less, as a value of the
\* column's type, than that of the local row of the same primary key, the
\* local row stays as it is and exactly one conflict is counted for it.
C3_LocalWinsOverOlderRemote ==
    [][\A id \in TaskIds :
          (task[id].pc = "pull_apply" /\ task'[id].pc = "ledger") =>
              LET t == id[2]
                  older == {k \in 1..Len(task[id].rows) :
                              OlderThanLocal(t, local[t], task[id].rows[k])}
              IN  /\ \A k \in older : \A l \in local[t] :
                         PkOf(t, l) = PkOf(t, task[id].rows[k]) => l \in local'[t]
                  /\ task'[id].collision_count >= Cardinality(older)
                  /\ (\A k \in 1..Len(task[id].rows) :
                          UpdatedAtOf(t, task[id].rows[k]).some)
                        => task'[id].collision_count = Cardinality(older)]_vars

\* C4: a fetched row with a NULL, empty or missing primary-key value is never
\* written to the local table, and it does not stop the pull: the pull fails
\* only on a row that has all its key values, and when it succeeds every such
\* row has its key in the local table.
C4_IncompleteKeyNeverApplied ==
    [][\A id \in TaskIds : task[id].pc = "pull_apply" =>
          LET t == id[2]
              rows == task[id].rows
          IN  /\ \A r \in local'[t] \ local[t] : HasAllKeys(t, r)
              /\ \A r \in local[t] : HasAllKeys(t, r) => \E q \in local'[t] : PkOf(t, q) = PkOf(t, r)
              /\ task'[id].pc = "failed" =>
                    \E k \in 1..Len(rows) :
                        HasAllKeys(t, rows[k]) /\ Len(rows[k]) # Len(get_columns(t))
              /\ task'[id].pc = "ledger" =>
                    \A k \in 1..Len(rows) : HasAllKeys(t, rows[k]) =>
                        \E q \in local'[t] : PkOf(t, q) = PkOf(t, rows[k])]_vars

\* A pull of the composite-key table has succeeded on fetched rows of which
\* one lacked a key value and another, complete, is now in the local table.
C4_Witness ==
    \E id \in TaskIds :
        /\ id[2] = "links"
        /\ task[id].pc = "ledger"
        /\ \E r \in remote["links"] : ~HasAllKeys("links", r) /\ r \notin local["links"]
        /\ \E r \in remote["links"] : HasAllKeys("links", r) /\ r \in local["links"]

\* C5: whoever pushes, a remote row either stays as it is or is replaced by
\* a row of the same primary key whose updated_at is strictly greater; so the
\* remote updated_at of a key never decreases.
C5_RemoteLastWriterWins ==
    [][\A t \in AllTables : \A r \in remote[t] :
          \/ r \in remote'[t]
          \/ \E q \in remote'[t] :
                /\ PkOf(t, q) = PkOf(t, r)
                /\ UpdatedAtOf(t, q).some
                /\ Later(t, UpdatedAtOf(t, q).v, UpdatedAtOf(t, r).v)]_vars

\* A task has pushed a local row whose key the remote holds with a greater
\* updated_at, written by another replica: the remote row is still there.
C5_Witness ==
    \E id \in TaskIds :
        /\ task[id].pc = "pull_fetch"
        /\ \E l \in local[id[2]] : \E r \in remote[id[2]] :
              /\ PkOf(id[2], l) = PkOf(id[2], r)
              /\ r[2] = Some(OtherText)
              /\ Later(id[2], UpdatedAtOf(id[2], l).v, task[id].last_sync_time)
              /\ Later(id[2], UpdatedAtOf(id[2], r).v, UpdatedAtOf(id[2], l).v)

\* The step of task id is a push that returned Ok.
PushReturnedOk(id) == task[id].pc = "push_send" /\ task'[id].pc = "pull_fetch"

\* C6: push selects exactly the local rows whose updated_at exceeds the
\* watermark the cycle read, and after a push that returned Ok the remote
\* holds, for each selected key, a row whose updated_at is at least that of
\* the pushed row.
C6_PushCompleteness ==
    [][\A id \in TaskIds :
          LET t == id[2] IN
          /\ (task[id].pc = "push_read" /\ task'[id].pc \in {"push_send", "pull_fetch"}) =>
                {task'[id].rows[k] : k \in 1..Len(task'[id].rows)}
                    = {r \in local[t] : UpdatedAtOf(t, r).some /\
                          Later(t, UpdatedAtOf(t, r).v, task[id].last_sync_time)}
          /\ PushReturnedOk(id) =>
                \A k \in 1..Len(task[id].rows) :
                    \E q \in remote'[t] :
                        /\ PkOf(t, q) = PkOf(t, task[id].rows[k])
                        /\ UpdatedAtOf(t, q).some
                        /\ ~Later(t, UpdatedAtOf(t, task[id].rows[k]).v,
                                  UpdatedAtOf(t, q).v)]_vars

\* C7: a cycle returns Ok only by the step that upserts the ledger, whether or
\* not it moved rows; after that step the table has exactly one sync_status
\* row, whose last_sync_time is the now the cycle captured when it started
\* (the clock at that moment, before the push read), whose direction is
\* 'both' and whose sync_count is one more than before (1 when there was no
\* row).  No table ever has two rows, and a row's sync_count never decreases,
\* also when cycles overlap.
C7_LedgerUpdate ==
    [][/\ \A id \in TaskIds :
           LET t == id[2] IN
           /\ (task[id].pc = "spawned" /\ task'[id].pc # "spawned") =>
                 /\ task'[id].pc = "read_watermark"
                 /\ task'[id].now = Encode(updated_at_type(t), clock)
           /\ (task[id].pc \notin {"none", "spawned"} /\ task'[id].pc # "spawned") =>
                 task'[id].now = task[id].now
           /\ (task[id].pc # "ok" /\ task'[id].pc = "ok") =>
                 /\ task[id].pc = "ledger"
                 /\ LedgerRows(t, sync_status') =
                       {[table_name |-> t,
                         last_sync_time |-> task[id].now,
                         last_sync_direction |-> "both",
                         sync_count |->
                            IF LedgerRows(t, sync_status) = {} THEN 1
                            ELSE (CHOOSE r \in LedgerRows(t, sync_status) : TRUE).sync_count + 1]}
       /\ \A t \in AllTables :
           /\ Cardinality(LedgerRows(t, sync_status')) <= 1
           /\ \A r \in LedgerRows(t, sync_status) :
                 \E q \in LedgerRows(t, sync_status') : q.sync_count >= r.sync_count]_vars

\* Two overlapping cycles of a table have both returned Ok without a row to
\* move, the clock having advanced since the later one started: the ledger
\* row counts two cycles and carries a captured now, not the present time.
C7_Witness ==
    \E t \in AllTables :
        /\ InSchema(t)
        /\ local[t] = {} /\ remote[t] = {}
        /\ \A i \in DOMAIN inv : task[<<i, t>>].pc = "ok"
        /\ \E r \in sync_status :
              /\ r.table_name = t /\ r.sync_count = 2
              /\ \E i \in DOMAIN inv : r.last_sync_time = task[<<i, t>>].now
              /\ r.last_sync_time # Encode(updated_at_type(t), clock)

\* C8: the step by which a cycle fails (the remote batch of the push fails,
\* the pull fails, a local statement fails) leaves sync_status as it is, and
\* a failed cycle stays failed; sync_status changes only in the step by which
\* a cycle returns Ok.  What the push wrote remotely stays: a failing step
\* removes no remote row, and a failure after the push leaves the remote
\* table as it is.
C8_FailedCycleLeavesLedger ==
    [][/\ \A id \in TaskIds :
           /\ (task[id].pc # "failed" /\ task'[id].pc = "failed") =>
                 /\ sync_status' = sync_status
                 /\ \A r \in remote[id[2]] : \E q \in remote'[id[2]] :
                        PkOf(id[2], q) = PkOf(id[2], r)
                 /\ task[id].pc # "push_send" => remote' = remote
           /\ task[id].pc = "failed" => task'[id].pc = "failed"
       /\ sync_status' # sync_status =>
             \E id \in TaskIds : task[id].pc = "ledger" /\ task'[id].pc = "ok"]_vars

\* A cycle has failed after its push put the application's row on the remote:
\* the row is still there and the table has no sync_status row.
C8_Witness ==
    \E id \in TaskIds :
        /\ task[id].pc = "failed"
        /\ \A i \in DOMAIN inv : task[<<i, id[2]>>].pc \in {"none", "failed"}
        /\ \E r \in remote[id[2]] : r \in local[id[2]] /\ r[2] = Some(AppText)
        /\ LedgerRows(id[2], sync_status) = {}

\* The tables whose task of invocation i ended with Err.
FailedTables(i) == {t \in AllTables : InSchema(t) /\ task[<<i, t>>].pc = "failed"}

\* The task can take its next step towards Ok.
CanProceed(id) ==
    ENABLED (\/ capture_now(id)
             \/ take_conn_guard(id)
             \/ read_watermark(id)
             \/ push_read(id)
             \/ push_send_ok(id)
             \/ pull_fetch(id)
             \/ pull_apply(id) /\ task'[id].pc = "ledger"
             \/ update_sync_status(id))

\* C9: when sync_all has returned, it returned Ok exactly if every task ended
\* with Ok, and otherwise Err with exactly one entry for each failed task.
\* Whatever its siblings did, a task that has not ended can take its next
\* step towards Ok, or waits for the connection held by a running task that
\* can (a task that has ended holds no guard), and a step of one task changes
\* neither another task nor another table's rows or ledger row.
C9_AggregateOutcome ==
    /\ [](\A i \in DOMAIN inv :
            /\ inv[i].pc = "returned" =>
                  /\ inv[i].result \in {"ok", "err"}
                  /\ inv[i].result = "ok" <=>
                        \A t \in AllTables : InSchema(t) => task[<<i, t>>].pc = "ok"
                  /\ Len(inv[i].errors) = Cardinality(FailedTables(i))
                  /\ {inv[i].errors[k] : k \in 1..Len(inv[i].errors)} = FailedTables(i)
            /\ \A t \in AllTables :
                  /\ Finished(<<i, t>>) => ~task[<<i, t>>].conn_guard
                  /\ task[<<i, t>>].pc \notin {"none", "ok", "failed"} =>
                        \/ CanProceed(<<i, t>>)
                        \/ \E o \in TaskIds : task[o].conn_guard /\ CanProceed(o))
    /\ [][\A id \in TaskIds :
             (task[id].pc # "none" /\ task'[id] # task[id]) =>
                 /\ \A other \in TaskIds \ {id} : task'[other] = task[other]
                 /\ \A t \in AllTables \ {id[2]} :
                       /\ local'[t] = local[t]
                       /\ remote'[t] = remote[t]
                       /\ LedgerRows(t, sync_status') = LedgerRows(t, sync_status)]_vars

\* sync_all has returned Err with two entries: two tasks failed and the third
\* ended with Ok and wrote its ledger row.
C9_Witness ==
    \E i \in DOMAIN inv :
        /\ inv[i].pc = "returned" /\ inv[i].result = "err"
        /\ Len(inv[i].errors) = 2
        /\ \E t \in AllTables :
              /\ task[<<i, t>>].pc = "ok"
              /\ LedgerRows(t, sync_status) # {}

\* C10: sync_all returns only when every task it spawned has ended, with Ok
\* or with Err; no task of a returned invocation is still running.
C10_FanInWithoutShortCircuit ==
    [][\A i \in DOMAIN inv :
          (inv'[i].pc = "returned") =>
              \A t \in AllTables : InSchema(t) =>
                  /\ Finished(<<i, t>>)
                  /\ task'[<<i, t>>] = task[<<i, t>>]]_vars

\* sync_all has returned although the first task it awaited failed: the
\* tasks awaited after it have ended with Ok.
C10_Witness ==
    \E i \in DOMAIN inv :
        /\ inv[i].pc = "returned"
        /\ task[<<i, schema[1]>>].pc = "failed"
        /\ inv[i].errors = <<schema[1]>>
        /\ \A k \in 2..Len(schema) : task[<<i, schema[k]>>].pc = "ok"

\* C11: while the add-column tasks of an invocation run, none of its table
\* tasks runs; the reconciler ends only by spawning a task for every table of
\* the schema, once every add-column task has ended, whether the statements
\* succeeded or failed; and sync_all returns Err only when a table task
\* failed.
C11_ReconcilerFirstNeverBlocks ==
    /\ [](\A i \in DOMAIN inv :
            /\ inv[i].pc = "schema" =>
                  \A t \in AllTables : task[<<i, t>>].pc \in {"none", "ok", "failed"}
            /\ ~AltersDone(i) => inv[i].pc = "schema"
            /\ (inv[i].pc = "schema" /\ AltersDone(i)) => ENABLED sync_all_spawn(i)
            /\ (inv[i].pc = "returned" /\ inv[i].result = "err") => FailedTables(i) # {})
    /\ [][\A i \in DOMAIN inv :
             (inv[i].pc = "schema" /\ inv'[i].pc # "schema") =>
                 /\ AltersDone(i)
                 /\ inv'[i].pc = "join"
                 /\ \A t \in AllTables :
                       InSchema(t) => task'[<<i, t>>].pc = "spawned"]_vars

\* Every add-column statement of an invocation has failed and the reconciler
\* is about to return: the table tasks can be spawned.
C11_Witness ==
    \E i \in DOMAIN inv :
        /\ inv[i].pc = "schema"
        /\ \A t \in AllTables : InSchema(t) => inv[i].alter[<<t, "updated_at">>] = "err"
        /\ Cardinality({k \in AlterKeys : inv[i].alter[k] = "err"}) = 3
        /\ ENABLED sync_all_spawn(i)

\* The tasks that hold the guard of the shared connection.
GuardHolders == {id \in TaskIds : task[id].conn_guard}

C13_PullAtomic ==
    [][\A id \in TaskIds :
          (task[id].pc = "pull_apply" /\ task[id].conn_guard) =>
              LET t == id[2]
                  rows == task[id].rows
                  written == {k \in 1..Len(rows) :
                                ~PkIncomplete(t, rows[k]) /\ ~LocalWins(t, local[t], rows[k])}
              IN  /\ task'[id].pc = "failed" => local'[t] = local[t]
                  /\ task'[id].pc = "ledger" =>
                        /\ \A k \in written : rows[k] \in local'[t]
                        /\ \A l \in local[t] :
                              (\A k \in written : PkOf(t, rows[k]) # PkOf(t, l))
                                  => l \in local'[t]
                        /\ local'[t] \subseteq local[t] \cup {rows[k] : k \in written}]_vars

\* A pull has failed on a fetched row that is too short to insert, fetched
\* together with a complete row of another key: the complete row is not in
\* the local table, which holds the row it held before.
C13_Witness ==
    \E id \in TaskIds :
        LET t == id[2] IN
        /\ task[id].pc = "failed"
        /\ local[t] # {}
        /\ \E r \in remote[t], q \in remote[t] :
              /\ HasAllKeys(t, r) /\ Len(r) = Len(get_columns(t))
              /\ ~LocalWins(t, local[t], r) /\ r \notin local[t]
              /\ HasAllKeys(t, q) /\ Len(q) < Len(get_columns(t))
              /\ PkOf(t, q) # PkOf(t, r)

\* The instant a local date-time text denotes, as a millisecond-epoch text.
EpochOfLocalText(s) == ToDecimal(ParseDateTime(s).n - UtcOffset)

\* C14: for an integer-typed table whose stored watermark is a legacy local
\* date-time text, the cycle filters its push and its pull by the
\* millisecond-epoch equivalent of that text, and when the cycle has returned
\* Ok that converted value is the stored watermark.
C14_LegacyWatermarkMigration ==
    [][\A id \in TaskIds : \A r \in LedgerRows(id[2], sync_status) :
          (IsIntType(updated_at_type(id[2])) /\ ParseDateTime(r.last_sync_time).ok) =>
              /\ (task[id].pc = "read_watermark" /\ task'[id].pc = "push_read") =>
                    task'[id].last_sync_time = EpochOfLocalText(r.last_sync_time)
              /\ (task[id].pc = "ledger" /\ task'[id].pc = "ok") =>
                    \A q \in LedgerRows(id[2], sync_status') :
                        q.last_sync_time = task[id].last_sync_time]_vars

\* C15: when the first synced build fails with a known signature, bootstrap
\* deletes the earlier legacy backup, then moves the local file to the legacy
\* name, removes the WAL and SHM companions of the database and the sync
\* directory, and only then retries; there are never more than two build
\* attempts, and a successful retry gives cloud mode.
C15_OneShotRecovery ==
    LET p == boot.db_path IN
    /\ Len(boot.builds) <= 2
    /\ boot.pc \in {"remove_backup", "rename", "remove_wal_shm", "remove_sync_dir", "retry"}
         => Len(boot.builds) = 1 /\ should_recover(boot.builds[1])
    /\ boot.pc \in {"rename", "remove_wal_shm", "remove_sync_dir", "retry"}
         => fs[conflict_path(p)] # "backup"
    /\ boot.pc \in {"remove_wal_shm", "remove_sync_dir", "retry"}
         => /\ fs[p] = ""
            /\ boot.rename = "ok" => fs[conflict_path(p)] = "replica"
    /\ boot.pc \in {"remove_sync_dir", "retry"}
         => \A f \in Companions(p) : fs[f] = ""
    /\ boot.pc = "retry" => fs[sync_dir(p)] = ""
    /\ (Len(boot.builds) = 2 /\ boot.builds[2] = "ok")
         => /\ boot.is_cloud_sync
            /\ boot.pc = "ok" => boot.state.is_sync_enabled

\* The cloud setup of the call of init_db has failed: the validation failed,
\* the first synced build failed with no known signature, or the retry after
\* the quarantine failed.
CloudSetupFailed ==
    \/ boot.validation = "err"
    \/ Len(boot.builds) >= 1 /\ boot.builds[1] # "ok" /\ ~should_recover(boot.builds[1])
    \/ Len(boot.builds) = 2 /\ boot.builds[2] # "ok"

\* C16: a failed cloud setup is never what init_db returns as an error: the
\* call goes on to the local build in local-only mode, returns an error only
\* when the local build, the pragma or the migration fails, and otherwise
\* returns a DbState with a database, a connection and the cloud flag false.
C16_GracefulDegradation ==
    /\ [](CloudSetupFailed =>
            /\ boot.pc \in {"local", "pragma", "migrate", "ok", "err"}
            /\ ~boot.is_cloud_sync
            /\ boot.pc = "local" => ENABLED init_local_db_connection(TRUE)
            /\ boot.pc = "err" =>
                 boot.error \in {"Failed to build local db",
                                 "Failed to enable foreign keys", "migration failed"}
            /\ boot.pc = "ok" =>
                 /\ boot.state.db.some
                 /\ boot.state.conn.some
                 /\ ~boot.state.is_sync_enabled)
    /\ [][boot.pc \in {"validate", "build", "remove_backup", "rename",
                       "remove_wal_shm", "remove_sync_dir", "retry"}
            => boot'.pc # "err"]_vars

\* init_db has returned a local-only DbState after the retry failed too.
C16_Witness ==
    /\ boot.pc = "ok"
    /\ Len(boot.builds) = 2
    /\ boot.builds[2] = "connection refused"
    /\ boot.state.conn.some
    /\ ~boot.state.is_sync_enabled

\* The sidecar configuration existed, parsed, and holds a url and a token
\* that are both non-empty.
ConfigComplete ==
    /\ boot.config_file.exists
    /\ boot.config_file.parses
    /\ boot.config_file.url # EmptyUrl
    /\ boot.config_file.token # ""

\* One of the at most two synced builds of the call succeeded.
SyncedBuildSucceeded ==
    /\ Len(boot.builds) \in {1, 2}
    /\ boot.builds[Len(boot.builds)] = "ok"
    /\ Len(boot.builds) = 2 => should_recover(boot.builds[1])

\* C17: the DbState init_db returns reports cloud sync enabled only if the
\* configuration was complete, the validation succeeded and the first
\* synced build or its single retry succeeded, and then its sync url is the
\* configured one; in every other case the flag is false and the url empty.
\* The application's DbState reports the same once the state is transferred.
C17_ModeDecision ==
    /\ boot.pc = "ok" =>
         /\ boot.state.is_sync_enabled
              <=> (ConfigComplete /\ boot.validation = "ok" /\ SyncedBuildSucceeded)
         /\ boot.state.is_sync_enabled => boot.state.sync_url = boot.config_file.url
         /\ ~boot.state.is_sync_enabled => boot.state.sync_url = EmptyUrl
    /\ db_state.is_sync_enabled =>
         /\ boot.pc = "ok"
         /\ boot.state.is_sync_enabled
         /\ db_state.sync_url = boot.config_file.url
    /\ ~db_state.is_sync_enabled => db_state.sync_url = EmptyUrl

\* init_db returned a cloud-mode DbState after a successful retry, and the
\* application took it over.
C17_Witness ==
    /\ boot.pc = "ok"
    /\ boot.state.is_sync_enabled
    /\ Len(boot.builds) = 2
    /\ db_state.is_sync_enabled

\* init_db returned a local-only DbState although the configuration was
\* complete and valid: the synced build failed.
C17_WitnessLocal ==
    /\ boot.pc = "ok"
    /\ ConfigComplete
    /\ boot.validation = "ok"
    /\ ~boot.state.is_sync_enabled
    /\ boot.state.sync_url = EmptyUrl

\* C18: on every path of init_db the foreign-key pragma runs first, on the
\* connection the build produced, the migration runs after it, and a DbState
\* is returned only when both succeeded; when either fails none is returned.
C18_BootstrapOrdering ==
    /\ [](/\ boot.foreign_keys => boot.conn.some
          /\ boot.migrated => boot.foreign_keys
          /\ boot.pc = "migrate" => boot.foreign_keys /\ ~boot.migrated
          /\ boot.pc = "ok" =>
               boot.foreign_keys /\ boot.migrated /\ boot.state = BuiltState(boot)
          /\ boot.pc # "ok" => boot.state = NewDbState
          /\ db_state.conn.some => boot.pc = "ok")
    /\ [][/\ (boot'.foreign_keys /\ ~boot.foreign_keys) =>
                boot.pc = "pragma" /\ boot.conn.some /\ ~boot.migrated
          /\ (boot'.migrated /\ ~boot.migrated) =>
                boot.pc = "migrate" /\ boot.foreign_keys /\ boot'.pc = "ok"
          /\ (boot.pc = "migrate" /\ boot'.pc # "migrate" /\ ~boot'.migrated) =>
                boot'.pc = "err" /\ boot'.state = NewDbState]_vars

\* init_db returned a DbState after the pragma and the migration, on the
\* local-only path.
C18_Witness ==
    /\ boot.pc = "ok"
    /\ boot.foreign_keys
    /\ boot.migrated
    /\ boot.state.conn = Some("local")
    /\ boot.builds = <<>>

\* The migration failed after the pragma: init_db returned an error and no
\* DbState.
C18_WitnessFailed ==
    /\ boot.pc = "err"
    /\ boot.error = "migration failed"
    /\ boot.foreign_keys
    /\ boot.state = NewDbState

C19_WitnessOpen ==
    /\ call.op = "get_connection"
    /\ call.ok
    /\ call.conn = db_state.conn
    /\ db_state.conn.some

\* The elements of the answer's array that report an error, by position.
Reporting(a) == {k \in 1..Len(a.body.items) : a.body.items[k].error}

\* C20: execute_remote_batch fails on a non-success status whatever the body
\* holds; on a success status with a statement reporting an error it fails
\* with the message of the first such statement; it succeeds only when no
\* statement of the answer reports an error.
C20_BatchOutcome ==
    http.returned =>
        LET a == http.answer IN
        /\ (a.sent /\ ~is_success(a.status)) =>
              http.result = BatchErr("Server error", a.status, "")
        /\ (a.sent /\ is_success(a.status) /\ a.readable /\ Reporting(a) # {}) =>
              /\ ~http.result.ok
              /\ http.result.index = Least(Reporting(a)) - 1
              /\ http.result.message = a.body.items[Least(Reporting(a))].message
        /\ http.result.ok => (a.sent /\ is_success(a.status) /\ Reporting(a) = {})

\* C21: whichever remote call receives it, an answer with a non-2xx status
\* makes the call fail: it is never returned as a success or as an empty
\* result.
C21_NonSuccessStatusFails ==
    (http.returned /\ http.answer.sent /\ ~is_success(http.answer.status))
        => ~http.result.ok

\* C22: whichever of execute_remote_batch and fetch_remote_rows receives it,
\* an answer whose body does not parse as the array of results makes the
\* call fail.
C22_MalformedAnswerFails ==
    (/\ http.returned
     /\ http.fn \in {"execute_remote_batch", "fetch_remote_rows"}
     /\ http.answer.sent
     /\ http.answer.readable
     /\ ~ParseItems(http.answer.body).some)
        => ~http.result.ok

\* C23: a table of the schema that declares no updated_at column is
\* skipped by sync_all: no cycle is started for it, so nothing is pushed or
\* pulled for it and no ledger row is written for it.
C23_TablesWithoutUpdatedAtSkipped ==
    \A id \in TaskIds :
        (InSchema(id[2]) /\ ~HasUpdatedAt(id[2])) =>
            /\ task[id].pc = "none"
            /\ LedgerRows(id[2], sync_status) = {}

\* The rows of table t the application wrote during the first cycle.
RacedRows(t) == {r \in local[t] : r[2] = Some(RaceText)}

\* C24: a row written locally during a cycle, after the cycle's push select
\* and stamped with the time of the write, is among the rows the push of the
\* next cycle selects.
C24_RacingWriteIsPushedNext ==
    [][\A id \in TaskIds :
          (/\ inv[id[1]].round = 2
           /\ task[id].pc = "push_read"
           /\ task'[id].pc \in {"push_send", "pull_fetch"})
             => \A r \in RacedRows(id[2]) :
                    \E k \in 1..Len(task'[id].rows) : task'[id].rows[k] = r]_vars

\* The rows of the table that belong to its primary key.
KeyRows(rows) == {j \in 1..Len(rows) : rows[j].pk_idx # 0}

\* C25: for a loaded table get_pks is the columns with a nonzero
\* primary-key ordinal, in the order of the ordinals; without such a column
\* it is <<"id">> when a column named id exists, and empty otherwise.
C25_IntrospectedPrimaryKey ==
    table_info.loaded =>
        LET rows == table_info.rows
            pks == table_info.pks
        IN  IF KeyRows(rows) # {}
            THEN /\ Len(pks) = Cardinality(KeyRows(rows))
                 /\ \A j \in KeyRows(rows) : pks[rows[j].pk_idx] = rows[j].name
            ELSE IF \E j \in 1..Len(rows) : rows[j].name = "id"
                 THEN pks = <<"id">>
                 ELSE pks = <<>>

\* A table whose key columns are declared in another order than their
\* ordinals has been loaded.
C25_Witness ==
    /\ table_info.loaded
    /\ \E j, k \in KeyRows(table_info.rows) :
         j < k /\ table_info.rows[j].pk_idx > table_info.rows[k].pk_idx
    /\ Len(table_info.pks) >= 2

\* The answer of the call names no label of the allowed list.
NoAllowedLabel ==
    /\ llm.answer.ok
    /\ IF llm.fn = "generate_tags_llm" THEN TextItems(llm) = <<>>
       ELSE VisionItems(llm) = <<>>

\* The labels of the call that score above zero against the name.
ScoringLabels ==
    {j \in 1..Len(llm.labels) : SubstringScore(to_lowercase(llm.name), llm.labels[j]) > 0}

\* C26: when the answer yields no label of the allowed list, the helper
\* returns labels that score above zero against the name: as many of them as
\* there are, up to top_k, whatever the threshold.
C26_FallbackToSubstringScoring ==
    (llm.returned /\ NoAllowedLabel) =>
        /\ llm.ok
        /\ \A j \in 1..Len(llm.out) :
              \E k \in ScoringLabels : llm.labels[k] = llm.out[j].name
        /\ Len(llm.out) = (IF Cardinality(ScoringLabels) < llm.top_k
                           THEN Cardinality(ScoringLabels) ELSE llm.top_k)

\* C27: the log file never exceeds MAX_LOG_SIZE: neither the file, nor the
\* content read_logs returns, nor current_size().
C27_LogSizeBound ==
    log.opened =>
        /\ Len(log.file) <= MAX_LOG_SIZE
        /\ current_size <= MAX_LOG_SIZE
        /\ (log.content.some /\ log.content.ok) => Len(log.content.text) <= MAX_LOG_SIZE

\* The offsets at which the latest entry lies whole in q.
OffsetsOfLast(q) ==
    {a \in 0..(Len(q) - SumWidths(log.last)) :
        SubSeq(q, a + 1, a + SumWidths(log.last)) = as_bytes(log.last, TRUE)}

\* C28: the entry written last is whole and contiguous in the content
\* read_logs returns; it does not cross MAX_LOG_SIZE, and an entry that
\* wrapped around lies at offset 0.
C28_LatestEntrySurvives ==
    (log.last # <<>> /\ log.content.some) =>
        /\ log.content.ok
        /\ OffsetsOfLast(log.content.text) # {}
        /\ \A a \in OffsetsOfLast(log.content.text) :
              /\ a + SumWidths(log.last) <= MAX_LOG_SIZE
              /\ log.wrapped => a = 0

\* C29: at most one manual_sync invocation of a SyncButton is in flight at
\* any time.
C29_AtMostOneSyncInFlight == button.in_flight <= 1

\* The step sets dragging_id.
DraggingBecomesSet == drag'.dragging_id.some /\ drag'.dragging_id # drag.dragging_id

\* What a step may do to the drag signals.
DragStepOk ==
    /\ DraggingBecomesSet =>
         /\ drag'.event.type = "mousemove"
         /\ drag.pending_id.some
         /\ drag'.dragging_id = drag.pending_id
         /\ \/ abs(drag'.event.x - drag.start_x) > 5
            \/ abs(drag'.event.y - drag.start_y) > 5
    /\ drag'.dropped.some => (drag.moved /\ drag.dragging_id.some)
    /\ drag'.event.type \in {"mousedown input", "mousedown button"} =>
         /\ drag'.pending_id = drag.pending_id
         /\ drag'.start_x = drag.start_x
         /\ drag'.start_y = drag.start_y

\* C30: dragging_id becomes set only by a mousemove farther than 5 px, on x
\* or on y, from the position recorded at mousedown while a pending item is
\* set, and it is set to that item; while the mouse has not moved that far
\* since the left mousedown, dragging_id is not set and the mouseup calls no
\* on_drop; a mousedown on an input or a button records no pending drag.
C30_ClickVersusDrag ==
    /\ []((drag.left_down /\ ~drag.moved) => ~drag.dragging_id.some)
    /\ [][DragStepOk]_vars

\* A drag has been started by a movement of more than 5 px on y only, and a
\* drop has been made after a drag.
C30_Witness ==
    \/ /\ drag.dragging_id.some
       /\ drag.event.type = "mousemove"
       /\ abs(drag.event.x - drag.start_x) <= 5
       /\ abs(drag.event.y - drag.start_y) > 5
    \/ drag.dropped.some

\* C31: drop_target is never the item that is being dragged, and on_drop is
\* never called with an item and that same item as the target.
C31_NoDropOnSelf ==
    /\ drag.dragging_id.some => drag.drop_target # Some(<<"Item", drag.dragging_id.v>>)
    /\ drag.dropped.some => drag.dropped.v[2] # <<"Item", drag.dropped.v[1]>>

\* The mouse has entered the item that is being dragged.
C31_Witness ==
    /\ drag.dragging_id.some
    /\ drag.event.type = "mouseenter Item"
    /\ drag.event.x = drag.dragging_id.v

\* The step is a run of the global mouseup handler.
MouseupStep == drag' # drag /\ drag'.event.type = "mouseup"

\* What the mouseup handler leaves behind.
MouseupStepOk ==
    MouseupStep =>
        /\ ~drag'.dragging_id.some
        /\ ~drag'.pending_id.some
        /\ ~drag'.drop_target.some
        /\ drag'.dropped.some <=> (drag.dragging_id.some /\ drag.drop_target.some)
        /\ drag'.dropped.some =>
              drag'.dropped.v = <<drag.dragging_id.v, drag.drop_target.v>>

\* C39: after the mouseup handler dragging_id, pending_id and drop_target
\* are None; it calls on_drop exactly when a dragging id and a drop target
\* were both set, with those values; and drop_target is None whenever
\* dragging_id is None.
C39_MouseupResetsDrag ==
    /\ [](~drag.dragging_id.some => ~drag.drop_target.some)
    /\ [][MouseupStepOk]_vars

\* A mouseup has dropped an item on a zone.
C39_Witness ==
    /\ drag.event.type = "mouseup"
    /\ drag.dropped.some
    /\ drag.dropped.v[2][1] = "Zone"

\* The step sets drag_just_ended.
JustEndedBecomesSet == drag'.drag_just_ended /\ ~drag.drag_just_ended

\* C40: drag_just_ended is set only by a mouseup that ends a drag, so a
\* click without a drag leaves it false.
C40_JustEndedOnlyAfterDrag ==
    [][JustEndedBecomesSet => (MouseupStep /\ drag.dragging_id.some)]_vars

\* Call c takes the step of install_pending_update that looks at pending.
InstallLooks(c) == upd.pc[c] = "idle" /\ upd'.fn[c] = "install_pending_update"

\* What a step of install_pending_update may do.
InstallStepOk ==
    \A c \in UpdCalls :
        /\ (InstallLooks(c) /\ ~upd.pending.some) =>
              /\ upd'.result[c] = "Err: No pending update found in memory"
              /\ upd'.pending = upd.pending
              /\ upd'.installs = upd.installs
              /\ upd'.events = upd.events
        /\ (InstallLooks(c) /\ upd.pending.some) =>
              /\ ~upd'.pending.some
              /\ upd'.installs = upd.installs
        /\ (upd.pc[c] = "installing" /\ upd'.pc[c] = "returned") =>
              upd'.pending = upd.pending

EventsInOrder(ev) ==
    \A j \in 1..Len(ev) :
        /\ j = 1 <=> ev[j] = "tauri-update-download-start"
        /\ ev[j] \in {"tauri-update-complete", "tauri-update-error"} => j = Len(ev)

\* What a step of download_update may do.
DownloadStepOk ==
    /\ upd'.pending # upd.pending /\ upd'.pending.some =>
          \E c \in UpdCalls :
              /\ upd.pc[c] = "downloading" /\ upd'.pc[c] = "stored"
              /\ upd'.events[c] = upd.events[c]
    /\ \A c \in UpdCalls :
          upd'.events[c] # upd.events[c] =>
              /\ upd'.events[c][Len(upd'.events[c])] = "tauri-update-complete" =>
                    (upd.pc[c] = "stored" /\ upd.lock = c /\ upd.pending.some)
              /\ upd'.events[c][Len(upd'.events[c])] = "tauri-update-error" =>
                    (upd'.result[c] = "Err" /\ upd'.pending = upd.pending)

\* C38: the start event precedes every progress event; pending is set only
\* after a successful download and before the complete event; a failed
\* download emits the error event, no complete event, and leaves pending;
\* without an available update the call returns an error and emits nothing.
C38_DownloadEventProtocol ==
    /\ [](\A c \in UpdCalls :
            /\ EventsInOrder(upd.events[c])
            /\ upd.result[c] \in {"Err: No update available to download"} =>
                  upd.events[c] = <<>>
            /\ (upd.fn[c] = "download_update" /\ upd.result[c] = "Err"
                /\ upd.events[c] # <<>>) =>
                  upd.events[c][Len(upd.events[c])] = "tauri-update-error"
            /\ (upd.fn[c] = "download_update" /\ upd.result[c] = "Ok") =>
                  upd.events[c][Len(upd.events[c])] = "tauri-update-complete")
    /\ [][DownloadStepOk]_vars

\* One download has completed after a progress event, another has failed.
C38_Witness ==
    \E c, e \in UpdCalls :
        /\ upd.result[c] = "Ok" /\ Len(upd.events[c]) = 3
        /\ upd.fn[e] = "download_update" /\ upd.result[e] = "Err"
        /\ upd.events[e] # <<>>

\* The step is a call of close.
CloseStep == call'.op = "close" /\ (call' # call \/ ~db_state'.conn.some)

WaitsFor(p) == IF Waiting(p) THEN xfer.owner[Instr(p)[2]] ELSE 0

\* Task p waits for a lock it holds itself, or for a lock of a task that
\* waits for a lock of p or of itself: p never proceeds.
Stuck(p) ==
    /\ WaitsFor(p) # 0
    /\ \/ WaitsFor(p) = p
       \/ WaitsFor(WaitsFor(p)) \in {p, WaitsFor(p)}

\* C34: no call of update_from, alone or with other calls on the same
\* states, ever waits for a lock that is never released.
C34_UpdateFromTerminates ==
    \A p \in Tasks : xfer.op[p].fn = "update_from" => ~Stuck(p)

\* C36: the position the appender tracks and the cursor of the file agree,
\* so that every entry is written at current_position, and
\* current_position never exceeds file_size.
C36_LogCursorAgreement ==
    log.opened =>
        /\ log.cursor = log.current_position
        /\ log.current_position <= log.file_size
        /\ (log.last # <<>> /\ ~log.content.some) =>
              (log.current_position - SumWidths(log.last)) \in OffsetsOfLast(log.file)

\* ------------------------------------------------------------- the tie rule

\* Row l of the local side and row r of the remote side of table t are tied
\* above watermark w: the same primary key, the same updated_at, both newer
\* than w, and not the same row.
Tied(t, l, r, w) ==
    /\ PkOf(t, l) = PkOf(t, r)
    /\ UpdatedAtOf(t, l).some
    /\ UpdatedAtOf(t, l) = UpdatedAtOf(t, r)
    /\ l # r
    /\ SqlGreater(updated_at_type(t), UpdatedAtOf(t, l), w)
    /\ SqlGreater(updated_at_type(t), UpdatedAtOf(t, r), w)

\* The push of a cycle that sends a tied local row leaves the remote row as
\* it is.
TiePushOk(id) ==
    (/\ task[id].pc = "push_send"
     /\ task'[id].pc = "pull_fetch")
        => \A r \in remote[id[2]] :
             (\E k \in 1..Len(task[id].rows) :
                  Tied(id[2], task[id].rows[k], r, task[id].last_sync_time))
                 => remote'[id[2]] = remote[id[2]]

\* The pull of a cycle that fetched a tied remote row replaces the local row
\* with it.
TiePullOk(id) ==
    (/\ task[id].pc = "pull_apply"
     /\ task'[id].pc = "ledger")
        => \A l \in local[id[2]] : \A k \in 1..Len(task[id].rows) :
             Tied(id[2], l, task[id].rows[k], task[id].last_sync_time)
                 => /\ task[id].rows[k] \in local'[id[2]]
                    /\ l \notin local'[id[2]]

\* The cycle that pulled over a tie ends with both replicas holding the
\* remote version: nothing but the cycle writes in this specification.
TieEndOk(id) ==
    (/\ task[id].pc = "pull_apply"
     /\ task'[id].pc = "ledger"
     /\ \E l \in local[id[2]] : \E r \in remote[id[2]] :
           Tied(id[2], l, r, task[id].last_sync_time))
        => /\ remote'[id[2]] = remote[id[2]]
           /\ local'[id[2]] = remote[id[2]]

\* C33: when a local row and a remote row share a primary key, both exceed
\* the watermark, and their updated_at values are equal while other columns
\* differ, the push of the cycle leaves the remote row unchanged and the pull
\* overwrites the local row with the remote row, so that both replicas hold
\* the remote version afterwards.
C33_TieRule ==
    [][\A id \in TaskIds : TiePushOk(id) /\ TiePullOk(id) /\ TieEndOk(id)]_vars

\* A cycle has pushed over a tie and is about to end with the local table
\* replaced by the remote row: the ledger step follows a pull that found the
\* tied row, and both replicas hold the row the other replica wrote.
C33_Witness ==
    \E id \in TaskIds :
        /\ task[id].pc = "pull_apply"
        /\ task[id].conn_guard
        /\ \E l \in local[id[2]] : \E k \in 1..Len(task[id].rows) :
              /\ Tied(id[2], l, task[id].rows[k], task[id].last_sync_time)
              /\ task[id].rows[k] \in remote[id[2]]
              /\ ~LocalWins(id[2], local[id[2]], task[id].rows[k])

\* ------------------------------------------------------ convergence on pull

\* Remote row r of table t is in the local replica, or the local replica
\* holds a newer row of the same primary key.
Converged(t, r) ==
    \/ r \in local[t]
    \/ \E l \in local[t] :
          /\ PkOf(t, l) = PkOf(t, r)
          /\ UpdatedAtOf(t, r).some
          /\ SqlGreater(updated_at_type(t), UpdatedAtOf(t, l), UpdatedAtOf(t, r).v)

\* The cycle of task id that started after the last write has ended Ok.
LastCycleOk(id) ==
    /\ inv[id[1]].round = MaxRounds
    /\ inv[id[1]].pc \in {"join", "returned"}
    /\ task[id].pc = "ok"

\* C32: once local and remote writes have stopped, a successful cycle of a
\* table leaves no remote row that is missing from the local replica or newer
\* than the local row of its primary key; no remote row is skipped because
\* its updated_at is not greater than a watermark an earlier cycle stored.
C32_ConvergenceOnPull ==
    \A id \in TaskIds :
        LastCycleOk(id) => \A r \in remote[id[2]] : Converged(id[2], r)

\* The same for the remote rows stamped later than the watermark the last
\* cycle read.
ConvergenceAboveWatermark ==
    \A id \in TaskIds :
        LastCycleOk(id) =>
            \A r \in remote[id[2]] :
                SqlGreater(updated_at_type(id[2]), UpdatedAtOf(id[2], r),
                           task[id].last_sync_time)
                    => Converged(id[2], r)

====
